---- MODULE Spec2Model ----
(***************************************************************************)
(* Model of the PB7200P80 AFE driver (src/PB7200P80.cpp, header in         *)
(* src/unnamed/part_000).                                                  *)
(*                                                                         *)
(* The handle's fields are the variables cellCount .. lastUpdate; the      *)
(* chip is a byte-addressed register file (regs) reached over a bus whose  *)
(* every transaction may fail.  Every driver method is a function from a   *)
(* handle/device snapshot (a record, see Cur) to a result record, composed *)
(* exactly as the methods call each other; one action per public method    *)
(* commits the result.                                                     *)
(*                                                                         *)
(* Physical values are held in thousandths of their unit (mV, mA, m-degC), *)
(* so the three LSBs 0.001 V, 0.01 A and 0.1 degC are 1, 10 and 100.  A    *)
(* cached float is always raw * LSB for an integer raw, and that map is    *)
(* strictly increasing, so integer comparison is float comparison.         *)
(***************************************************************************)
EXTENDS Integers, Sequences, FiniteSets, TLC

(***************************************************************************)
(* Program constants (src/unnamed/part_000)                                *)
(***************************************************************************)
PB7200_REG_DEVICE_ID == 0
PB7200_REG_STATUS == 1
PB7200_REG_FAULT_STATUS == 2
PB7200_REG_CELL_VOLTAGE_BASE == 16
PB7200_REG_TEMP_BASE == 48
PB7200_REG_CURRENT_H == 64
PB7200_REG_BALANCE_CTRL1 == 80
PB7200_REG_BALANCE_CTRL2 == 81
PB7200_REG_BALANCE_CTRL3 == 82
PB7200_REG_CONFIG_OVP == 96
PB7200_REG_CONFIG_UVP == 97
PB7200_REG_CONFIG_OCP == 98
PB7200_REG_CONFIG_OTP == 99
PB7200_REG_CONFIG_UTP == 100
PB7200_REG_CONTROL == 112
PB7200_REG_SHUTDOWN == 114
PB7200_MAX_CELLS == 20
PB7200_MAX_TEMPS == 8
PB7200_VOLTAGE_LSB == 1
PB7200_CURRENT_LSB == 10
PB7200_TEMP_LSB == 100
PB7200_STATUS_OVP == 1
PB7200_STATUS_UVP == 2
PB7200_MODE_NORMAL == 0
PB7200_MODE_SLEEP == 1
PB7200_MODE_SHUTDOWN == 2
PB7200_INTERFACE_I2C == 0
PB7200_INTERFACE_UART == 1

\* _tempSensorCount, set once by the constructor and never written again
tempSensorCount == 8

(***************************************************************************)
(* Bounds of the model                                                     *)
(***************************************************************************)
\* the clock (millis) runs from 0 to MaxTime
MaxTime == 2

CellSlots == 0..(PB7200_MAX_CELLS - 1)
TempSlots == 0..(PB7200_MAX_TEMPS - 1)

\* every register address the driver reads or writes
RegAddrs ==
    {PB7200_REG_DEVICE_ID, PB7200_REG_STATUS, PB7200_REG_FAULT_STATUS}
    \cup (PB7200_REG_CELL_VOLTAGE_BASE .. (PB7200_REG_CURRENT_H + 1))
    \cup (PB7200_REG_BALANCE_CTRL1 .. PB7200_REG_BALANCE_CTRL3)
    \cup (PB7200_REG_CONFIG_OVP .. (PB7200_REG_CONFIG_UTP + 1))
    \cup {PB7200_REG_CONTROL, PB7200_REG_SHUTDOWN}

VARIABLES
    iface,          \* _interface
    cellCount,      \* _cellCount
    cellVoltages,   \* _cellVoltages[20], mV
    temperatures,   \* _temperatures[8], m-degC
    current,        \* _current, mA
    status,         \* _status
    faultStatus,    \* _faultStatus
    lastUpdate,     \* _lastUpdate
    regs,           \* the chip's register file
    now,            \* millis()
    voltagesOut,    \* the caller's array handed to getAllCellVoltages
    call            \* the last step: the public call (name, arguments, result,
                    \* bus log) or the event of the environment

handleVars == <<cellCount, cellVoltages, temperatures, current, status,
                faultStatus, lastUpdate>>
vars == <<iface, cellCount, cellVoltages, temperatures, current, status,
          faultStatus, lastUpdate, regs, now, voltagesOut, call>>

(***************************************************************************)
(* Integer helpers for the C bit operations                                *)
(***************************************************************************)
Pow2(n) == 2 ^ n
\* bit b of byte v
Bit(v, b) == (v \div Pow2(b)) % 2
\* v | (1 << b)
SetBit(v, b) == IF Bit(v, b) = 1 THEN v ELSE v + Pow2(b)
\* v & ~(1 << b)
ClearBit(v, b) == IF Bit(v, b) = 1 THEN v - Pow2(b) ELSE v
\* v & m for a mask m of one bit
BitAnd(v, m) == ((v \div m) % 2) * m
\* (data[0] << 8) | data[1] stored in a uint16_t
Word16(msb, lsb) == msb * 256 + lsb
\* the mutant of Int16 for C12: the word is taken unsigned
Int16_Unsigned(msb, lsb) == Word16(msb, lsb)

\* (data[0] << 8) | data[1] stored in an int16_t
Int16(msb, lsb) ==
    IF Word16(msb, lsb) >= 32768 THEN Word16(msb, lsb) - 65536
    ELSE Word16(msb, lsb)

rawToVoltage(raw) == raw * PB7200_VOLTAGE_LSB
rawToCurrent(raw) == raw * PB7200_CURRENT_LSB
rawToTemp(raw) == raw * PB7200_TEMP_LSB

(***************************************************************************)
(* Encoding.  The C code divides the float value by the LSB and casts the  *)
(* quotient to the integer type, which truncates toward zero.  A value     *)
(* that is an exact multiple of the LSB in real arithmetic need not be one *)
(* in binary floating point: its quotient is the whole number or falls     *)
(* just short of it (4.2 / 0.001 = 4199.9995), depending on the value and  *)
(* on the width of double in the build; under says which.  A value that is *)
(* not a multiple of the LSB is further from a whole number than any       *)
(* rounding error and truncates as in real arithmetic.                     *)
(***************************************************************************)
\* x / d truncated toward zero
TruncDiv(x, d) == IF x >= 0 THEN x \div d ELSE -((-x) \div d)

\* (integer type)(value / lsb)
FloatToRaw(value, lsb, under) ==
    LET q == TruncDiv(value, lsb)
    IN  IF under /\ value % lsb = 0 /\ q # 0
        THEN IF q > 0 THEN q - 1 ELSE q + 1
        ELSE q

\* the mutant of voltageToRaw for C13: the value is divided by the LSB of
\* the current
voltageToRaw_CurrentLsb(voltage, under) ==
    FloatToRaw(voltage, PB7200_CURRENT_LSB, under) % 65536

voltageToRaw(voltage, under) ==
    FloatToRaw(voltage, PB7200_VOLTAGE_LSB, under) % 65536
currentToRaw(cur, under) == FloatToRaw(cur, PB7200_CURRENT_LSB, under)
tempToRaw(temp, under) == FloatToRaw(temp, PB7200_TEMP_LSB, under)

\* (raw >> 8) & 0xFF and raw & 0xFF of a 16-bit raw, signed or unsigned
HighByte(raw) == (raw % 65536) \div 256
LowByte(raw) == raw % 256

(***************************************************************************)
(* The snapshot the methods work on: the handle's fields, the register     *)
(* file and the log of the bus transactions the running call has issued.   *)
(***************************************************************************)
Cur ==
    [cellCount |-> cellCount, cellVoltages |-> cellVoltages,
     temperatures |-> temperatures, current |-> current, status |-> status,
     faultStatus |-> faultStatus, lastUpdate |-> lastUpdate, regs |-> regs,
     bus |-> <<>>]

\* the outcome of the transaction about to be issued: oks[k] tells whether
\* the k-th transaction of the call is acknowledged and complete
BusOk(s, oks) == oks[Len(s.bus) + 1]

Tx(kind, reg, len, val, ok) ==
    [kind |-> kind, reg |-> reg, len |-> len, val |-> val, ok |-> ok]

(***************************************************************************)
(* Register transport                                                      *)
(***************************************************************************)
writeRegister(s, reg, value, oks) ==
    IF iface = PB7200_INTERFACE_I2C
    THEN LET ok == BusOk(s, oks)
         IN  [ok |-> ok,
              s |-> [s EXCEPT !.bus = Append(@, Tx("w", reg, 1, value, ok)),
                              !.regs = IF ok THEN [@ EXCEPT ![reg] = value]
                                       ELSE @]]
    ELSE [ok |-> FALSE, s |-> s]

\* value is the caller's variable passed by reference: it is assigned only
\* when both bus phases succeed
readRegister(s, reg, value, oks) ==
    IF iface = PB7200_INTERFACE_I2C
    THEN LET ok == BusOk(s, oks)
         IN  [ok |-> ok,
              value |-> IF ok THEN s.regs[reg] ELSE value,
              s |-> [s EXCEPT !.bus = Append(@, Tx("r", reg, 1, 0, ok))]]
    ELSE [ok |-> FALSE, value |-> value, s |-> s]

\* data is meaningful only when ok: the callers read it on success alone
readRegisters(s, reg, length, oks) ==
    IF iface = PB7200_INTERFACE_I2C
    THEN LET ok == BusOk(s, oks)
         IN  [ok |-> ok,
              data |-> [k \in 1..length |-> s.regs[reg + k - 1]],
              s |-> [s EXCEPT !.bus = Append(@, Tx("r", reg, length, 0, ok))]]
    ELSE [ok |-> FALSE, data |-> <<>>, s |-> s]

(***************************************************************************)
(* Index checks                                                            *)
(***************************************************************************)
\* the mutant of isValidCellIndex for C3: the index is checked against the
\* capacity of the cache, not against the configured cell count
isValidCellIndex_Capacity(s, index) == index < PB7200_MAX_CELLS

isValidCellIndex(s, index) == index < s.cellCount
isValidTempIndex(index) == index < PB7200_MAX_TEMPS

(***************************************************************************)
(* Voltages                                                                *)
(***************************************************************************)
\* the mutant of getCellVoltage for C11: the cell registers are addressed
\* one byte apart
getCellVoltage_ByteStride(s, cellIndex, oks) ==
    IF ~isValidCellIndex(s, cellIndex)
    THEN [ret |-> 0, s |-> s]
    ELSE LET r == readRegisters(s, PB7200_REG_CELL_VOLTAGE_BASE + cellIndex,
                                2, oks)
             v == rawToVoltage(Word16(r.data[1], r.data[2]))
         IN  IF r.ok
             THEN [ret |-> v,
                   s |-> [r.s EXCEPT !.cellVoltages[cellIndex] = v]]
             ELSE [ret |-> 0, s |-> r.s]

getCellVoltage(s, cellIndex, oks) ==
    IF ~isValidCellIndex(s, cellIndex)
    THEN [ret |-> 0, s |-> s]
    ELSE LET r == readRegisters(s, PB7200_REG_CELL_VOLTAGE_BASE + cellIndex * 2,
                                2, oks)
             v == rawToVoltage(Word16(r.data[1], r.data[2]))
         IN  IF r.ok
             THEN [ret |-> v,
                   s |-> [r.s EXCEPT !.cellVoltages[cellIndex] = v]]
             ELSE [ret |-> 0, s |-> r.s]

\* the mutant of getAllCellVoltages for C16: a successful burst clears the
\* cache slots it does not read
getAllCellVoltages_ClearRest(s, voltages, count, oks) ==
    IF count > s.cellCount \/ count > PB7200_MAX_CELLS
    THEN [ok |-> FALSE, voltages |-> voltages, s |-> s]
    ELSE LET r == readRegisters(s, PB7200_REG_CELL_VOLTAGE_BASE, count * 2, oks)
             dec(i) == rawToVoltage(Word16(r.data[i * 2 + 1], r.data[i * 2 + 2]))
             upd(a) == [i \in CellSlots |-> IF i < count THEN dec(i) ELSE a[i]]
             clr(a) == [i \in CellSlots |-> IF i < count THEN dec(i) ELSE 0]
         IN  IF r.ok
             THEN [ok |-> TRUE, voltages |-> upd(voltages),
                   s |-> [r.s EXCEPT !.cellVoltages = clr(@)]]
             ELSE [ok |-> FALSE, voltages |-> voltages, s |-> r.s]

\* the mutant of getAllCellVoltages for C1: a failed burst read zeroes the
\* targeted slots instead of leaving them alone
getAllCellVoltages_ClobberOnFailure(s, voltages, count, oks) ==
    IF count > s.cellCount \/ count > PB7200_MAX_CELLS
    THEN [ok |-> FALSE, voltages |-> voltages, s |-> s]
    ELSE LET r == readRegisters(s, PB7200_REG_CELL_VOLTAGE_BASE, count * 2, oks)
             dec(i) == IF r.ok
                       THEN rawToVoltage(Word16(r.data[i * 2 + 1],
                                                r.data[i * 2 + 2]))
                       ELSE 0
             upd(a) == [i \in CellSlots |-> IF i < count THEN dec(i) ELSE a[i]]
         IN  [ok |-> r.ok, voltages |-> upd(voltages),
              s |-> [r.s EXCEPT !.cellVoltages = upd(@)]]

getAllCellVoltages(s, voltages, count, oks) ==
    IF count > s.cellCount \/ count > PB7200_MAX_CELLS
    THEN [ok |-> FALSE, voltages |-> voltages, s |-> s]
    ELSE LET r == readRegisters(s, PB7200_REG_CELL_VOLTAGE_BASE, count * 2, oks)
             dec(i) == rawToVoltage(Word16(r.data[i * 2 + 1], r.data[i * 2 + 2]))
             upd(a) == [i \in CellSlots |-> IF i < count THEN dec(i) ELSE a[i]]
         IN  IF r.ok
             THEN [ok |-> TRUE, voltages |-> upd(voltages),
                   s |-> [r.s EXCEPT !.cellVoltages = upd(@)]]
             ELSE [ok |-> FALSE, voltages |-> voltages, s |-> r.s]

(***************************************************************************)
(* Temperatures                                                            *)
(***************************************************************************)
getTemperature(s, tempIndex, oks) ==
    IF ~isValidTempIndex(tempIndex)
    THEN [ret |-> 0, s |-> s]
    ELSE LET r == readRegisters(s, PB7200_REG_TEMP_BASE + tempIndex * 2, 2, oks)
             v == rawToTemp(Int16(r.data[1], r.data[2]))
         IN  IF r.ok
             THEN [ret |-> v,
                   s |-> [r.s EXCEPT !.temperatures[tempIndex] = v]]
             ELSE [ret |-> 0, s |-> r.s]

getAllTemperatures(s, temps, count, oks) ==
    IF count > PB7200_MAX_TEMPS
    THEN [ok |-> FALSE, temps |-> temps, s |-> s]
    ELSE LET r == readRegisters(s, PB7200_REG_TEMP_BASE, count * 2, oks)
             dec(i) == rawToTemp(Int16(r.data[i * 2 + 1], r.data[i * 2 + 2]))
             upd(a) == [i \in TempSlots |-> IF i < count THEN dec(i) ELSE a[i]]
         IN  IF r.ok
             THEN [ok |-> TRUE, temps |-> upd(temps),
                   s |-> [r.s EXCEPT !.temperatures = upd(@)]]
             ELSE [ok |-> FALSE, temps |-> temps, s |-> r.s]

(***************************************************************************)
(* Current, status, faults                                                 *)
(***************************************************************************)
\* the mutant of getCurrent for C7: a failed read returns the cached value
getCurrent_StaleOnFailure(s, oks) ==
    LET r == readRegisters(s, PB7200_REG_CURRENT_H, 2, oks)
        v == rawToCurrent(Int16(r.data[1], r.data[2]))
    IN  IF r.ok
        THEN [ret |-> v, s |-> [r.s EXCEPT !.current = v]]
        ELSE [ret |-> s.current, s |-> r.s]

getCurrent(s, oks) ==
    LET r == readRegisters(s, PB7200_REG_CURRENT_H, 2, oks)
        v == rawToCurrent(Int16(r.data[1], r.data[2]))
    IN  IF r.ok
        THEN [ret |-> v, s |-> [r.s EXCEPT !.current = v]]
        ELSE [ret |-> 0, s |-> r.s]

\* the mutant of getStatus for C6: a failed read clears the cached byte
getStatus_ClearOnFailure(s, oks) ==
    LET r == readRegister(s, PB7200_REG_STATUS, 0, oks)
    IN  [ret |-> r.value, s |-> [r.s EXCEPT !.status = r.value]]

getStatus(s, oks) ==
    LET r == readRegister(s, PB7200_REG_STATUS, s.status, oks)
    IN  [ret |-> r.value, s |-> [r.s EXCEPT !.status = r.value]]

getFaultStatus(s, oks) ==
    LET r == readRegister(s, PB7200_REG_FAULT_STATUS, s.faultStatus, oks)
    IN  [ret |-> r.value, s |-> [r.s EXCEPT !.faultStatus = r.value]]

(***************************************************************************)
(* update(): the batch refresh                                             *)
(***************************************************************************)
\* the local arrays of update() before the burst reads fill them; update()
\* reads back only the slots a successful burst read has written
LocalVoltages == [i \in CellSlots |-> 0]
LocalTemps == [i \in TempSlots |-> 0]

\* the mutant of update for C18: a failed voltage burst ends the refresh
update_StopOnFailure(s, oks) ==
    LET v  == getAllCellVoltages(s, LocalVoltages, s.cellCount, oks)
        t  == getAllTemperatures(v.s, LocalTemps, tempSensorCount, oks)
        c  == getCurrent(t.s, oks)
        st == getStatus(c.s, oks)
        f  == getFaultStatus(st.s, oks)
    IN  IF v.ok
        THEN [ok |-> t.ok, s |-> [f.s EXCEPT !.lastUpdate = now]]
        ELSE [ok |-> FALSE, s |-> [v.s EXCEPT !.lastUpdate = now]]

\* the mutant of update for C2: every failed read fails the refresh
update_AnyReadFails(s, oks) ==
    LET v  == getAllCellVoltages(s, LocalVoltages, s.cellCount, oks)
        t  == getAllTemperatures(v.s, LocalTemps, tempSensorCount, oks)
        c  == getCurrent(t.s, oks)
        st == getStatus(c.s, oks)
        f  == getFaultStatus(st.s, oks)
    IN  [ok |-> \A k \in 1..Len(f.s.bus) : f.s.bus[k].ok,
         s |-> [f.s EXCEPT !.lastUpdate = now]]

\* the mutant of update for C9: only a successful refresh is stamped
update_StampOnSuccess(s, oks) ==
    LET v  == getAllCellVoltages(s, LocalVoltages, s.cellCount, oks)
        t  == getAllTemperatures(v.s, LocalTemps, tempSensorCount, oks)
        c  == getCurrent(t.s, oks)
        st == getStatus(c.s, oks)
        f  == getFaultStatus(st.s, oks)
    IN  [ok |-> v.ok /\ t.ok,
         s |-> IF v.ok /\ t.ok THEN [f.s EXCEPT !.lastUpdate = now] ELSE f.s]

update(s, oks) ==
    LET v  == getAllCellVoltages(s, LocalVoltages, s.cellCount, oks)
        s1 == IF v.ok
              THEN [v.s EXCEPT !.cellVoltages =
                        [i \in CellSlots |->
                            IF i < s.cellCount THEN v.voltages[i] ELSE @[i]]]
              ELSE v.s
        t  == getAllTemperatures(s1, LocalTemps, tempSensorCount, oks)
        s2 == IF t.ok
              THEN [t.s EXCEPT !.temperatures =
                        [i \in TempSlots |->
                            IF i < tempSensorCount THEN t.temps[i] ELSE @[i]]]
              ELSE t.s
        c  == getCurrent(s2, oks)
        st == getStatus(c.s, oks)
        f  == getFaultStatus(st.s, oks)
    IN  [ok |-> v.ok /\ t.ok, s |-> [f.s EXCEPT !.lastUpdate = now]]

(***************************************************************************)
(* begin(), isConnected()                                                  *)
(***************************************************************************)
isConnected(s, oks) ==
    LET r == readRegister(s, PB7200_REG_DEVICE_ID, 0, oks)
    IN  [ok |-> r.ok /\ r.value # 0 /\ r.value # 255, s |-> r.s]

\* the mutant of begin for C21: begin reports the result of its refresh
begin_UpdateResult(s, n, oks) ==
    IF n = 0 \/ n > PB7200_MAX_CELLS
    THEN [ok |-> FALSE, s |-> s]
    ELSE LET s0 == [s EXCEPT !.cellCount = n]
         IN  IF iface # PB7200_INTERFACE_I2C
             THEN [ok |-> FALSE, s |-> s0]
             ELSE LET p == isConnected(s0, oks)
                      w == writeRegister(p.s, PB7200_REG_CONTROL, 1, oks)
                  IN  IF ~p.ok THEN [ok |-> FALSE, s |-> p.s]
                      ELSE IF ~w.ok THEN [ok |-> FALSE, s |-> w.s]
                      ELSE update(w.s, oks)

\* the mutant of begin for C8: the cell count is stored unchecked
begin_Unchecked(s, n, oks) ==
    LET s0 == [s EXCEPT !.cellCount = n]
    IN  IF iface # PB7200_INTERFACE_I2C
        THEN [ok |-> FALSE, s |-> s0]
        ELSE LET p == isConnected(s0, oks)
                 w == writeRegister(p.s, PB7200_REG_CONTROL, 1, oks)
             IN  IF ~p.ok THEN [ok |-> FALSE, s |-> p.s]
                 ELSE IF ~w.ok THEN [ok |-> FALSE, s |-> w.s]
                 ELSE [ok |-> TRUE, s |-> update(w.s, oks).s]

begin(s, n, oks) ==
    IF n = 0 \/ n > PB7200_MAX_CELLS
    THEN [ok |-> FALSE, s |-> s]
    ELSE LET s0 == [s EXCEPT !.cellCount = n]
         IN  IF iface # PB7200_INTERFACE_I2C
             THEN [ok |-> FALSE, s |-> s0]
             ELSE LET p == isConnected(s0, oks)
                      w == writeRegister(p.s, PB7200_REG_CONTROL, 1, oks)
                  IN  IF ~p.ok THEN [ok |-> FALSE, s |-> p.s]
                      ELSE IF ~w.ok THEN [ok |-> FALSE, s |-> w.s]
                      ELSE [ok |-> TRUE, s |-> update(w.s, oks).s]

(***************************************************************************)
(* Cache-derived aggregates                                                *)
(***************************************************************************)
RECURSIVE totalLoop(_, _, _)
totalLoop(s, i, total) ==
    IF i < s.cellCount
    THEN totalLoop(s, i + 1, total + s.cellVoltages[i])
    ELSE total

getTotalVoltage(s) == totalLoop(s, 0, 0)

RECURSIVE maxLoop(_, _, _)
maxLoop(s, i, maxVoltage) ==
    IF i < s.cellCount
    THEN maxLoop(s, i + 1, IF s.cellVoltages[i] > maxVoltage
                           THEN s.cellVoltages[i] ELSE maxVoltage)
    ELSE maxVoltage

\* the mutant of getMaxCellVoltage for C10: the scan runs over all 20 slots
getMaxCellVoltage_AllSlots(s) ==
    maxLoop([s EXCEPT !.cellCount = PB7200_MAX_CELLS], 0, 0)

getMaxCellVoltage(s) == maxLoop(s, 0, 0)

RECURSIVE minLoop(_, _, _)
minLoop(s, i, minVoltage) ==
    IF i < s.cellCount
    THEN minLoop(s, i + 1,
                 IF s.cellVoltages[i] < minVoltage /\ s.cellVoltages[i] > 0
                 THEN s.cellVoltages[i] ELSE minVoltage)
    ELSE minVoltage

\* the mutant of getMinCellVoltage for C26: the scan starts from 0.0
getMinCellVoltage_FromZero(s) == minLoop(s, 0, 0)

getMinCellVoltage(s) == minLoop(s, 0, 5000)

getVoltageDelta(s) == getMaxCellVoltage(s) - getMinCellVoltage(s)

(***************************************************************************)
(* getPower(), in microwatts (mV * mA)                                     *)
(***************************************************************************)
\* the mutant of getPower for C17: the highest cell stands in for the pack
getPower_MaxCell(s) == getMaxCellVoltage(s) * s.current

getPower(s) == getTotalVoltage(s) * s.current

(***************************************************************************)
(* getMaxTemperature(), getMinTemperature()                                *)
(***************************************************************************)
RECURSIVE maxTempLoop(_, _, _)
maxTempLoop(s, i, maxTemp) ==
    IF i < tempSensorCount
    THEN maxTempLoop(s, i + 1, IF s.temperatures[i] > maxTemp
                               THEN s.temperatures[i] ELSE maxTemp)
    ELSE maxTemp

getMaxTemperature(s) == maxTempLoop(s, 0, -100000)

RECURSIVE minTempLoop(_, _, _)
minTempLoop(s, i, minTemp) ==
    IF i < tempSensorCount
    THEN minTempLoop(s, i + 1,
                     IF s.temperatures[i] < minTemp /\ s.temperatures[i] > -50000
                     THEN s.temperatures[i] ELSE minTemp)
    ELSE minTemp

getMinTemperature(s) == minTempLoop(s, 0, 200000)

(***************************************************************************)
(* getPackStats().  avgCellVoltage is the float quotient totalVoltage /    *)
(* _cellCount, kept as the pair of its operands (0 / 0 is a NaN).          *)
(***************************************************************************)
Quotient(num, den) == [num |-> num, den |-> den]

RECURSIVE statsCellLoop(_, _, _)
statsCellLoop(s, i, stats) ==
    IF i < s.cellCount
    THEN LET v == s.cellVoltages[i]
             a == [stats EXCEPT !.totalVoltage = @ + v]
             b == IF v > a.maxCellVoltage
                  THEN [a EXCEPT !.maxCellVoltage = v, !.maxCellIndex = i]
                  ELSE a
             c == IF v < b.minCellVoltage /\ v > 0
                  THEN [b EXCEPT !.minCellVoltage = v, !.minCellIndex = i]
                  ELSE b
         IN  statsCellLoop(s, i + 1, c)
    ELSE stats

RECURSIVE statsTempLoop(_, _, _)
statsTempLoop(s, i, stats) ==
    IF i < tempSensorCount
    THEN LET t == s.temperatures[i]
             a == IF t > stats.maxTemp
                  THEN [stats EXCEPT !.maxTemp = t, !.maxTempIndex = i]
                  ELSE stats
             b == IF t < a.minTemp /\ t > -50000
                  THEN [a EXCEPT !.minTemp = t, !.minTempIndex = i]
                  ELSE a
         IN  statsTempLoop(s, i + 1, b)
    ELSE stats

\* what getPackStats() computes from the cache once update() has succeeded
packStatsOf(s, stats) ==
    LET a == [stats EXCEPT !.totalVoltage = 0, !.maxCellVoltage = 0,
                           !.minCellVoltage = 5000,
                           !.avgCellVoltage = Quotient(0, 1),
                           !.maxCellIndex = 0, !.minCellIndex = 0]
        b == statsCellLoop(s, 0, a)
        c == [b EXCEPT !.avgCellVoltage = Quotient(b.totalVoltage, s.cellCount),
                       !.voltageDelta = b.maxCellVoltage - b.minCellVoltage,
                       !.maxTemp = -100000, !.minTemp = 200000,
                       !.maxTempIndex = 0, !.minTempIndex = 0]
        d == statsTempLoop(s, 0, c)
    IN  [d EXCEPT !.current = s.current,
                  !.power = d.totalVoltage * s.current]

\* the mutant of getPackStats for C24: the cache is summarised as it
\* stands, without a refresh
getPackStats_NoUpdate(s, stats, oks) ==
    [ok |-> TRUE, stats |-> packStatsOf(s, stats), s |-> s]

getPackStats(s, stats, oks) ==
    LET u == update(s, oks)
    IN  IF ~u.ok THEN [ok |-> FALSE, stats |-> stats, s |-> u.s]
        ELSE [ok |-> TRUE, stats |-> packStatsOf(u.s, stats), s |-> u.s]

(***************************************************************************)
(* Balancing                                                               *)
(***************************************************************************)
\* the mutant of setBalancing for C4: the register is overwritten with the
\* single bit instead of read-modify-written
setBalancing_NoMerge(s, cellIndex, enable, oks) ==
    IF ~isValidCellIndex(s, cellIndex)
    THEN [ok |-> FALSE, s |-> s]
    ELSE LET regAddr == PB7200_REG_BALANCE_CTRL1 + (cellIndex \div 8)
             r == readRegister(s, regAddr, 0, oks)
             w == writeRegister(r.s, regAddr,
                                IF enable THEN Pow2(cellIndex % 8) ELSE 0, oks)
         IN  IF ~r.ok THEN [ok |-> FALSE, s |-> r.s] ELSE w

setBalancing(s, cellIndex, enable, oks) ==
    IF ~isValidCellIndex(s, cellIndex)
    THEN [ok |-> FALSE, s |-> s]
    ELSE LET regOffset == cellIndex \div 8
             bitOffset == cellIndex % 8
             regAddr == PB7200_REG_BALANCE_CTRL1 + regOffset
             r == readRegister(s, regAddr, 0, oks)
             newValue == IF enable THEN SetBit(r.value, bitOffset)
                         ELSE ClearBit(r.value, bitOffset)
             w == writeRegister(r.s, regAddr, newValue, oks)
         IN  IF ~r.ok THEN [ok |-> FALSE, s |-> r.s] ELSE w

isBalancing(s, cellIndex, oks) ==
    IF ~isValidCellIndex(s, cellIndex)
    THEN [ok |-> FALSE, s |-> s]
    ELSE LET regOffset == cellIndex \div 8
             bitOffset == cellIndex % 8
             regAddr == PB7200_REG_BALANCE_CTRL1 + regOffset
             r == readRegister(s, regAddr, 0, oks)
         IN  [ok |-> r.ok /\ Bit(r.value, bitOffset) # 0, s |-> r.s]

\* the mutant of stopAllBalancing for C19: the writes stop at the first
\* failure
stopAllBalancing_ShortCircuit(s, oks) ==
    LET w1 == writeRegister(s, PB7200_REG_BALANCE_CTRL1, 0, oks)
        w2 == writeRegister(w1.s, PB7200_REG_BALANCE_CTRL2, 0, oks)
        w3 == writeRegister(w2.s, PB7200_REG_BALANCE_CTRL3, 0, oks)
    IN  IF ~w1.ok THEN [ok |-> FALSE, s |-> w1.s]
        ELSE IF ~w2.ok THEN [ok |-> FALSE, s |-> w2.s]
        ELSE [ok |-> w3.ok, s |-> w3.s]

\* the mutant of stopAllBalancing for C5: the third register is skipped
stopAllBalancing_TwoRegisters(s, oks) ==
    LET w1 == writeRegister(s, PB7200_REG_BALANCE_CTRL1, 0, oks)
        w2 == writeRegister(w1.s, PB7200_REG_BALANCE_CTRL2, 0, oks)
    IN  [ok |-> w1.ok /\ w2.ok, s |-> w2.s]

stopAllBalancing(s, oks) ==
    LET w1 == writeRegister(s, PB7200_REG_BALANCE_CTRL1, 0, oks)
        w2 == writeRegister(w1.s, PB7200_REG_BALANCE_CTRL2, 0, oks)
        w3 == writeRegister(w2.s, PB7200_REG_BALANCE_CTRL3, 0, oks)
    IN  [ok |-> w1.ok /\ w2.ok /\ w3.ok, s |-> w3.s]

(***************************************************************************)
(* setAutoBalancing()                                                      *)
(***************************************************************************)
\* the mutant of setAutoBalancing for C23: the threshold is encoded into
\* the bits 5-7 of the control byte
setAutoBalancing_EncodeThreshold(s, enable, threshold, oks) ==
    IF enable
    THEN LET r == readRegister(s, PB7200_REG_CONTROL, 0, oks)
             ctrlValue == (SetBit(r.value, 4) % 32) + (32 * (threshold % 8))
         IN  IF ~r.ok THEN [ok |-> FALSE, s |-> r.s]
             ELSE writeRegister(r.s, PB7200_REG_CONTROL, ctrlValue, oks)
    ELSE stopAllBalancing(s, oks)

\* the mutant of setAutoBalancing for C30: enabling also switches on the
\* balance bits of the whole third register
setAutoBalancing_AllSwitches(s, enable, threshold, oks) ==
    IF enable
    THEN LET r == readRegister(s, PB7200_REG_CONTROL, 0, oks)
             w == writeRegister(r.s, PB7200_REG_CONTROL,
                                SetBit(r.value, 4), oks)
         IN  IF ~r.ok THEN [ok |-> FALSE, s |-> r.s]
             ELSE IF ~w.ok THEN w
             ELSE writeRegister(w.s, PB7200_REG_BALANCE_CTRL3, 255, oks)
    ELSE stopAllBalancing(s, oks)

\* threshold is not used by the body
setAutoBalancing(s, enable, threshold, oks) ==
    IF enable
    THEN LET r == readRegister(s, PB7200_REG_CONTROL, 0, oks)
             ctrlValue == SetBit(r.value, 4)
         IN  IF ~r.ok THEN [ok |-> FALSE, s |-> r.s]
             ELSE writeRegister(r.s, PB7200_REG_CONTROL, ctrlValue, oks)
    ELSE stopAllBalancing(s, oks)

(***************************************************************************)
(* getCellData()                                                           *)
(***************************************************************************)
getCellData(s, cellIndex, data, oks) ==
    IF ~isValidCellIndex(s, cellIndex)
    THEN [ok |-> FALSE, data |-> data, s |-> s]
    ELSE LET v == getCellVoltage(s, cellIndex, oks)
             b == isBalancing(v.s, cellIndex, oks)
             f == getFaultStatus(b.s, oks)
         IN  [ok |-> TRUE,
              data |-> [voltage |-> v.ret, balancing |-> b.ok,
                        overvoltage |-> BitAnd(f.ret, PB7200_STATUS_OVP) # 0,
                        undervoltage |-> BitAnd(f.ret, PB7200_STATUS_UVP) # 0],
              s |-> f.s]

(***************************************************************************)
(* Protection thresholds.  A ProtectionConfig is modelled by its five      *)
(* thresholds (mV, mV, mA, m-degC, m-degC); the three delay fields are     *)
(* never read or written by the driver.                                    *)
(***************************************************************************)
ProtectionConfig(ov, uv, oc, ot, ut) ==
    [overVoltageThreshold |-> ov, underVoltageThreshold |-> uv,
     overCurrentThreshold |-> oc, overTempThreshold |-> ot,
     underTempThreshold |-> ut]

\* under[k] is the float behaviour of the k-th encoder call (see FloatToRaw)
setProtectionConfig(s, config, under, oks) ==
    LET ovpRaw == voltageToRaw(config.overVoltageThreshold, under[1])
        uvpRaw == voltageToRaw(config.underVoltageThreshold, under[2])
        ocpRaw == currentToRaw(config.overCurrentThreshold, under[3])
        otpRaw == tempToRaw(config.overTempThreshold, under[4])
        utpRaw == tempToRaw(config.underTempThreshold, under[5])
        w1 == writeRegister(s, PB7200_REG_CONFIG_OVP, HighByte(ovpRaw), oks)
        w2 == writeRegister(w1.s, PB7200_REG_CONFIG_OVP + 1, LowByte(ovpRaw), oks)
        w3 == writeRegister(w2.s, PB7200_REG_CONFIG_UVP, HighByte(uvpRaw), oks)
        w4 == writeRegister(w3.s, PB7200_REG_CONFIG_UVP + 1, LowByte(uvpRaw), oks)
        w5 == writeRegister(w4.s, PB7200_REG_CONFIG_OCP, HighByte(ocpRaw), oks)
        w6 == writeRegister(w5.s, PB7200_REG_CONFIG_OCP + 1, LowByte(ocpRaw), oks)
        w7 == writeRegister(w6.s, PB7200_REG_CONFIG_OTP, HighByte(otpRaw), oks)
        w8 == writeRegister(w7.s, PB7200_REG_CONFIG_OTP + 1, LowByte(otpRaw), oks)
        w9 == writeRegister(w8.s, PB7200_REG_CONFIG_UTP, HighByte(utpRaw), oks)
        w10 == writeRegister(w9.s, PB7200_REG_CONFIG_UTP + 1, LowByte(utpRaw), oks)
    IN  [ok |-> /\ w1.ok /\ w2.ok /\ w3.ok /\ w4.ok /\ w5.ok /\ w6.ok
                /\ w7.ok /\ w8.ok /\ w9.ok /\ w10.ok,
         s |-> w10.s]

\* the mutant of getProtectionConfig for C22: the reads stop at the first
\* failure
getProtectionConfig_StopOnFailure(s, config, oks) ==
    LET r1 == readRegisters(s, PB7200_REG_CONFIG_OVP, 2, oks)
        r2 == readRegisters(r1.s, PB7200_REG_CONFIG_UVP, 2, oks)
        r3 == readRegisters(r2.s, PB7200_REG_CONFIG_OCP, 2, oks)
        r4 == readRegisters(r3.s, PB7200_REG_CONFIG_OTP, 2, oks)
        r5 == readRegisters(r4.s, PB7200_REG_CONFIG_UTP, 2, oks)
        c1 == [config EXCEPT !.overVoltageThreshold =
                  rawToVoltage(Word16(r1.data[1], r1.data[2]))]
        c2 == [c1 EXCEPT !.underVoltageThreshold =
                  rawToVoltage(Word16(r2.data[1], r2.data[2]))]
        c3 == [c2 EXCEPT !.overCurrentThreshold =
                  rawToCurrent(Int16(r3.data[1], r3.data[2]))]
        c4 == [c3 EXCEPT !.overTempThreshold =
                  rawToTemp(Int16(r4.data[1], r4.data[2]))]
        c5 == [c4 EXCEPT !.underTempThreshold =
                  rawToTemp(Int16(r5.data[1], r5.data[2]))]
    IN  IF ~r1.ok THEN [ok |-> FALSE, config |-> config, s |-> r1.s]
        ELSE IF ~r2.ok THEN [ok |-> FALSE, config |-> c1, s |-> r2.s]
        ELSE IF ~r3.ok THEN [ok |-> FALSE, config |-> c2, s |-> r3.s]
        ELSE IF ~r4.ok THEN [ok |-> FALSE, config |-> c3, s |-> r4.s]
        ELSE IF ~r5.ok THEN [ok |-> FALSE, config |-> c4, s |-> r5.s]
        ELSE [ok |-> TRUE, config |-> c5, s |-> r5.s]

getProtectionConfig(s, config, oks) ==
    LET r1 == readRegisters(s, PB7200_REG_CONFIG_OVP, 2, oks)
        c1 == IF r1.ok
              THEN [config EXCEPT !.overVoltageThreshold =
                       rawToVoltage(Word16(r1.data[1], r1.data[2]))]
              ELSE config
        r2 == readRegisters(r1.s, PB7200_REG_CONFIG_UVP, 2, oks)
        c2 == IF r2.ok
              THEN [c1 EXCEPT !.underVoltageThreshold =
                       rawToVoltage(Word16(r2.data[1], r2.data[2]))]
              ELSE c1
        r3 == readRegisters(r2.s, PB7200_REG_CONFIG_OCP, 2, oks)
        c3 == IF r3.ok
              THEN [c2 EXCEPT !.overCurrentThreshold =
                       rawToCurrent(Int16(r3.data[1], r3.data[2]))]
              ELSE c2
        r4 == readRegisters(r3.s, PB7200_REG_CONFIG_OTP, 2, oks)
        c4 == IF r4.ok
              THEN [c3 EXCEPT !.overTempThreshold =
                       rawToTemp(Int16(r4.data[1], r4.data[2]))]
              ELSE c3
        r5 == readRegisters(r4.s, PB7200_REG_CONFIG_UTP, 2, oks)
        c5 == IF r5.ok
              THEN [c4 EXCEPT !.underTempThreshold =
                       rawToTemp(Int16(r5.data[1], r5.data[2]))]
              ELSE c4
    IN  [ok |-> r1.ok /\ r2.ok /\ r3.ok /\ r4.ok /\ r5.ok,
         config |-> c5, s |-> r5.s]

(***************************************************************************)
(* setMode(), sleep(), wakeup(), shutdown()                                *)
(***************************************************************************)
\* the mutant of setMode for C20: the control register is overwritten with
\* the mode alone
setMode_NoMerge(s, mode, oks) ==
    LET r == readRegister(s, PB7200_REG_CONTROL, 0, oks)
        w == writeRegister(r.s, PB7200_REG_CONTROL, mode % 4, oks)
    IN  IF ~r.ok THEN [ok |-> FALSE, s |-> r.s] ELSE w

setMode(s, mode, oks) ==
    LET r == readRegister(s, PB7200_REG_CONTROL, 0, oks)
        \* ctrlValue &= 0xFC; ctrlValue |= (mode & 0x03)
        ctrlValue == (r.value - (r.value % 4)) + (mode % 4)
        w == writeRegister(r.s, PB7200_REG_CONTROL, ctrlValue, oks)
    IN  IF ~r.ok THEN [ok |-> FALSE, s |-> r.s] ELSE w

sleep(s, oks) == setMode(s, PB7200_MODE_SLEEP, oks)
wakeup(s, oks) == setMode(s, PB7200_MODE_NORMAL, oks)
shutdown(s, oks) == writeRegister(s, PB7200_REG_SHUTDOWN, 1, oks)

(***************************************************************************)
(* reset()                                                                 *)
(***************************************************************************)
reset(s, oks) ==
    LET w == writeRegister(s, PB7200_REG_CONTROL, 128, oks)
    IN  IF w.ok THEN begin(w.s, w.s.cellCount, oks)
        ELSE [ok |-> FALSE, s |-> w.s]

(***************************************************************************)
(* The chip: what its measurement registers can hold.  Words 0..15 are     *)
(* the registers 0x10..0x2F, words 16..23 the registers 0x30..0x3F and     *)
(* word 24 the current register 0x40..0x41, each big-endian.  Sample 0 is  *)
(* a blank chip, sample 1 a nominal pack, sample 2 the edges of the        *)
(* decoders (0, 5.000 V, 0xFFFF, -50.0 degC).                              *)
(***************************************************************************)
SampleWords(k) ==
    CASE k = 0 -> [w \in 0..24 |-> 0]
      [] k = 1 -> [w \in 0..24 |->
                     CASE w = 0 -> 3700 [] w = 1 -> 3715 [] w = 2 -> 3690
                       [] w = 3 -> 3705 [] w = 16 -> 253 [] w = 17 -> 247
                       [] w = 18 -> 65036 [] w = 19 -> 64536 [] w = 20 -> 260
                       [] w = 21 -> 0 [] w = 22 -> 2000 [] w = 23 -> 2001
                       [] w = 24 -> 65386 [] OTHER -> 3650]
      [] k = 2 -> [w \in 0..24 |->
                     CASE w = 0 -> 0 [] w = 1 -> 5000 [] w = 2 -> 65535
                       [] w = 3 -> 4999 [] w = 16 -> 2001 [] w = 17 -> 65035
                       [] w = 18 -> 65036 [] w = 19 -> 1999 [] w = 24 -> 150
                       [] OTHER -> 5001]

SampleStatus(k) == CASE k = 0 -> 0 [] k = 1 -> 128 [] k = 2 -> 160
SampleFault(k) == CASE k = 0 -> 0 [] k = 1 -> 16 [] k = 2 -> 3

\* register file r with the registers of the words lo..hi holding sample k
WithWords(r, k, lo, hi) ==
    [a \in RegAddrs |->
        IF /\ a >= PB7200_REG_CELL_VOLTAGE_BASE + 2 * lo
           /\ a <= PB7200_REG_CELL_VOLTAGE_BASE + 2 * hi + 1
        THEN LET off == a - PB7200_REG_CELL_VOLTAGE_BASE
                 w == SampleWords(k)[off \div 2]
             IN  IF off % 2 = 0 THEN w \div 256 ELSE w % 256
        ELSE r[a]]

\* register file r with the status and fault registers of sample k
WithFlags(r, k) ==
    [r EXCEPT ![PB7200_REG_STATUS] = SampleStatus(k),
              ![PB7200_REG_FAULT_STATUS] = SampleFault(k)]

\* a register file: device id, the three balance registers and control as
\* given, every other register 0
Device(id, b1, b2, b3, ctrl) ==
    [a \in RegAddrs |->
        CASE a = PB7200_REG_DEVICE_ID -> id
          [] a = PB7200_REG_BALANCE_CTRL1 -> b1
          [] a = PB7200_REG_BALANCE_CTRL2 -> b2
          [] a = PB7200_REG_BALANCE_CTRL3 -> b3
          [] a = PB7200_REG_CONTROL -> ctrl
          [] OTHER -> 0]

(***************************************************************************)
(* Construction                                                            *)
(***************************************************************************)
CallRec(op, a, b, ok, ret, bus) ==
    [op |-> op, a |-> a, b |-> b, ok |-> ok, ret |-> ret, bus |-> bus]

\* the caller's array before the first call
OutInit == [i \in CellSlots |-> 9999]

Constructed ==
    /\ iface \in {PB7200_INTERFACE_I2C, PB7200_INTERFACE_UART}
    /\ cellCount = 0
    /\ cellVoltages = [i \in CellSlots |-> 0]
    /\ temperatures = [i \in TempSlots |-> 0]
    /\ current = 0
    /\ status = 0
    /\ faultStatus = 0
    /\ lastUpdate = 0
    /\ now = 0
    /\ voltagesOut = OutInit
    /\ call = CallRec("PB7200P80", 0, FALSE, FALSE, 0, <<>>)

Commit(s) ==
    /\ cellCount' = s.cellCount
    /\ cellVoltages' = s.cellVoltages
    /\ temperatures' = s.temperatures
    /\ current' = s.current
    /\ status' = s.status
    /\ faultStatus' = s.faultStatus
    /\ lastUpdate' = s.lastUpdate
    /\ regs' = s.regs

\* the bus outcomes of a call that issues at most n transactions
Outcomes(n) == [1..n -> BOOLEAN]

\* a bus that, once it has failed in a call, stays down to the end of that
\* call: the outcomes the specifications use where the claims they check
\* concern no call of more than one transaction
Persistent(n) ==
    {o \in Outcomes(n) : \A j, k \in 1..n : (j < k /\ o[k]) => o[j]}

(***************************************************************************)
(* One action per public method                                            *)
(***************************************************************************)
Begin(n, O) ==
    \E oks \in O :
        LET r == begin(Cur, n, oks)
        IN  /\ Commit(r.s)
            /\ call' = CallRec("begin", n, FALSE, r.ok, 0, r.s.bus)
            /\ UNCHANGED <<iface, now, voltagesOut>>

Reset(O) ==
    \E oks \in O :
        LET r == reset(Cur, oks)
        IN  /\ Commit(r.s)
            /\ call' = CallRec("reset", 0, FALSE, r.ok, 0, r.s.bus)
            /\ UNCHANGED <<iface, now, voltagesOut>>

Update(O) ==
    \E oks \in O :
        LET r == update(Cur, oks)
        IN  /\ Commit(r.s)
            /\ call' = CallRec("update", 0, FALSE, r.ok, 0, r.s.bus)
            /\ UNCHANGED <<iface, now, voltagesOut>>

GetCellVoltage(i) ==
    \E oks \in Outcomes(1) :
        LET r == getCellVoltage(Cur, i, oks)
        IN  /\ Commit(r.s)
            /\ call' = CallRec("getCellVoltage", i, FALSE, FALSE, r.ret, r.s.bus)
            /\ UNCHANGED <<iface, now, voltagesOut>>

GetAllCellVoltages(count) ==
    \E oks \in Outcomes(1) :
        LET r == getAllCellVoltages(Cur, voltagesOut, count, oks)
        IN  /\ Commit(r.s)
            /\ voltagesOut' = r.voltages
            /\ call' = CallRec("getAllCellVoltages", count, FALSE, r.ok, 0,
                               r.s.bus)
            /\ UNCHANGED <<iface, now>>

GetTemperature(j) ==
    \E oks \in Outcomes(1) :
        LET r == getTemperature(Cur, j, oks)
        IN  /\ Commit(r.s)
            /\ call' = CallRec("getTemperature", j, FALSE, FALSE, r.ret, r.s.bus)
            /\ UNCHANGED <<iface, now, voltagesOut>>

GetCurrent ==
    \E oks \in Outcomes(1) :
        LET r == getCurrent(Cur, oks)
        IN  /\ Commit(r.s)
            /\ call' = CallRec("getCurrent", 0, FALSE, FALSE, r.ret, r.s.bus)
            /\ UNCHANGED <<iface, now, voltagesOut>>

GetStatus ==
    \E oks \in Outcomes(1) :
        LET r == getStatus(Cur, oks)
        IN  /\ Commit(r.s)
            /\ call' = CallRec("getStatus", 0, FALSE, FALSE, r.ret, r.s.bus)
            /\ UNCHANGED <<iface, now, voltagesOut>>

GetFaultStatus ==
    \E oks \in Outcomes(1) :
        LET r == getFaultStatus(Cur, oks)
        IN  /\ Commit(r.s)
            /\ call' = CallRec("getFaultStatus", 0, FALSE, FALSE, r.ret, r.s.bus)
            /\ UNCHANGED <<iface, now, voltagesOut>>

SetBalancing(i, enable) ==
    \E oks \in Outcomes(2) :
        LET r == setBalancing(Cur, i, enable, oks)
        IN  /\ Commit(r.s)
            /\ call' = CallRec("setBalancing", i, enable, r.ok, 0, r.s.bus)
            /\ UNCHANGED <<iface, now, voltagesOut>>

IsBalancing(i) ==
    \E oks \in Outcomes(1) :
        LET r == isBalancing(Cur, i, oks)
        IN  /\ Commit(r.s)
            /\ call' = CallRec("isBalancing", i, FALSE, r.ok, 0, r.s.bus)
            /\ UNCHANGED <<iface, now, voltagesOut>>

StopAllBalancing ==
    \E oks \in Outcomes(3) :
        LET r == stopAllBalancing(Cur, oks)
        IN  /\ Commit(r.s)
            /\ call' = CallRec("stopAllBalancing", 0, FALSE, r.ok, 0, r.s.bus)
            /\ UNCHANGED <<iface, now, voltagesOut>>

SetAutoBalancing(enable, threshold) ==
    \E oks \in Outcomes(3) :
        LET r == setAutoBalancing(Cur, enable, threshold, oks)
        IN  /\ Commit(r.s)
            /\ call' = CallRec("setAutoBalancing", threshold, enable, r.ok, 0,
                               r.s.bus)
            /\ UNCHANGED <<iface, now, voltagesOut>>

\* the caller's CellData before the call
CellDataInit ==
    [voltage |-> 9999, balancing |-> FALSE, overvoltage |-> FALSE,
     undervoltage |-> FALSE]

GetCellData(i) ==
    \E oks \in Outcomes(3) :
        LET r == getCellData(Cur, i, CellDataInit, oks)
        IN  /\ Commit(r.s)
            /\ call' = CallRec("getCellData", i, FALSE, r.ok, r.data.voltage,
                               r.s.bus)
            /\ UNCHANGED <<iface, now, voltagesOut>>

(***************************************************************************)
(* The aggregates: they read the cache and assign no member                *)
(***************************************************************************)
GetTotalVoltage ==
    /\ call' = CallRec("getTotalVoltage", 0, FALSE, FALSE,
                       getTotalVoltage(Cur), Cur.bus)
    /\ UNCHANGED <<iface, handleVars, regs, now, voltagesOut>>

GetMaxCellVoltage ==
    /\ call' = CallRec("getMaxCellVoltage", 0, FALSE, FALSE,
                       getMaxCellVoltage(Cur), Cur.bus)
    /\ UNCHANGED <<iface, handleVars, regs, now, voltagesOut>>

GetMinCellVoltage ==
    /\ call' = CallRec("getMinCellVoltage", 0, FALSE, FALSE,
                       getMinCellVoltage(Cur), Cur.bus)
    /\ UNCHANGED <<iface, handleVars, regs, now, voltagesOut>>

GetVoltageDelta ==
    /\ call' = CallRec("getVoltageDelta", 0, FALSE, FALSE,
                       getVoltageDelta(Cur), Cur.bus)
    /\ UNCHANGED <<iface, handleVars, regs, now, voltagesOut>>

GetPower ==
    /\ call' = CallRec("getPower", 0, FALSE, FALSE, getPower(Cur), Cur.bus)
    /\ UNCHANGED <<iface, handleVars, regs, now, voltagesOut>>

(***************************************************************************)
(* The temperature aggregates and getPackStats()                           *)
(***************************************************************************)
GetMaxTemperature ==
    /\ call' = CallRec("getMaxTemperature", 0, FALSE, FALSE,
                       getMaxTemperature(Cur), Cur.bus)
    /\ UNCHANGED <<iface, handleVars, regs, now, voltagesOut>>

GetMinTemperature ==
    /\ call' = CallRec("getMinTemperature", 0, FALSE, FALSE,
                       getMinTemperature(Cur), Cur.bus)
    /\ UNCHANGED <<iface, handleVars, regs, now, voltagesOut>>

\* the caller's PackStats before the call
PackStatsInit ==
    [totalVoltage |-> 7, maxCellVoltage |-> 7, minCellVoltage |-> 7,
     avgCellVoltage |-> Quotient(7, 1), voltageDelta |-> 7,
     maxCellIndex |-> 7, minCellIndex |-> 7, current |-> 7, power |-> 7,
     maxTemp |-> 7, minTemp |-> 7, maxTempIndex |-> 7, minTempIndex |-> 7]

GetPackStats(O) ==
    \E oks \in O :
        LET r == getPackStats(Cur, PackStatsInit, oks)
        IN  /\ Commit(r.s)
            /\ call' = CallRec("getPackStats", 0, FALSE, r.ok, r.stats, r.s.bus)
            /\ UNCHANGED <<iface, now, voltagesOut>>

(***************************************************************************)
(* Protection thresholds                                                   *)
(***************************************************************************)
SetProtectionConfig(config, under, O) ==
    \E oks \in O :
        LET r == setProtectionConfig(Cur, config, under, oks)
        IN  /\ Commit(r.s)
            /\ call' = CallRec("setProtectionConfig", config, FALSE, r.ok, 0,
                               r.s.bus)
            /\ UNCHANGED <<iface, now, voltagesOut>>

\* config is the caller's structure before the call, call'.ret after it
GetProtectionConfig(config) ==
    \E oks \in Outcomes(5) :
        LET r == getProtectionConfig(Cur, config, oks)
        IN  /\ Commit(r.s)
            /\ call' = CallRec("getProtectionConfig", config, FALSE, r.ok,
                               r.config, r.s.bus)
            /\ UNCHANGED <<iface, now, voltagesOut>>

(***************************************************************************)
(* Modes                                                                   *)
(***************************************************************************)
SetMode(mode) ==
    \E oks \in Outcomes(2) :
        LET r == setMode(Cur, mode, oks)
        IN  /\ Commit(r.s)
            /\ call' = CallRec("setMode", mode, FALSE, r.ok, 0, r.s.bus)
            /\ UNCHANGED <<iface, now, voltagesOut>>

Sleep ==
    \E oks \in Outcomes(2) :
        LET r == sleep(Cur, oks)
        IN  /\ Commit(r.s)
            /\ call' = CallRec("sleep", PB7200_MODE_SLEEP, FALSE, r.ok, 0,
                               r.s.bus)
            /\ UNCHANGED <<iface, now, voltagesOut>>

Wakeup ==
    \E oks \in Outcomes(2) :
        LET r == wakeup(Cur, oks)
        IN  /\ Commit(r.s)
            /\ call' = CallRec("wakeup", PB7200_MODE_NORMAL, FALSE, r.ok, 0,
                               r.s.bus)
            /\ UNCHANGED <<iface, now, voltagesOut>>

Shutdown ==
    \E oks \in Outcomes(1) :
        LET r == shutdown(Cur, oks)
        IN  /\ Commit(r.s)
            /\ call' = CallRec("shutdown", 0, FALSE, r.ok, 0, r.s.bus)
            /\ UNCHANGED <<iface, now, voltagesOut>>

(***************************************************************************)
(* The environment: the chip samples new measurements, time passes         *)
(***************************************************************************)
\* the cell-voltage registers 0x10..0x2F take sample k
DeviceSampleCells(k) ==
    /\ regs' = WithWords(regs, k, 0, 15)
    /\ regs' # regs
    /\ call' = CallRec("deviceSample", k, FALSE, FALSE, 0, <<>>)
    /\ UNCHANGED <<iface, handleVars, now, voltagesOut>>

\* every measurement, status and fault register takes sample k
DeviceSample(k) ==
    /\ regs' = WithFlags(WithWords(regs, k, 0, 24), k)
    /\ regs' # regs
    /\ call' = CallRec("deviceSample", k, FALSE, FALSE, 0, <<>>)
    /\ UNCHANGED <<iface, handleVars, now, voltagesOut>>

Tick ==
    /\ now < MaxTime
    /\ now' = now + 1
    /\ call' = CallRec("tick", 0, FALSE, FALSE, 0, <<>>)
    /\ UNCHANGED <<iface, handleVars, regs, voltagesOut>>

(***************************************************************************)
(* The codecs applied to the cache: the private encoders called on the     *)
(* value cached for cell 0, for the current and for sensor 0, and the chip *)
(* presenting one byte pair in the three registers those values are read   *)
(* from.                                                                   *)
(***************************************************************************)
VoltageToRaw ==
    \E under \in BOOLEAN :
        /\ call' = CallRec("voltageToRaw", cellVoltages[0], under, FALSE,
                           voltageToRaw(cellVoltages[0], under), <<>>)
        /\ UNCHANGED <<iface, handleVars, regs, now, voltagesOut>>

CurrentToRaw ==
    \E under \in BOOLEAN :
        /\ call' = CallRec("currentToRaw", current, under, FALSE,
                           currentToRaw(current, under), <<>>)
        /\ UNCHANGED <<iface, handleVars, regs, now, voltagesOut>>

TempToRaw ==
    \E under \in BOOLEAN :
        /\ call' = CallRec("tempToRaw", temperatures[0], under, FALSE,
                           tempToRaw(temperatures[0], under), <<>>)
        /\ UNCHANGED <<iface, handleVars, regs, now, voltagesOut>>

\* the registers of cell 0, of sensor 0 and of the current hold (msb, lsb)
DeviceWord(msb, lsb) ==
    /\ regs' = [regs EXCEPT ![PB7200_REG_CELL_VOLTAGE_BASE] = msb,
                            ![PB7200_REG_CELL_VOLTAGE_BASE + 1] = lsb,
                            ![PB7200_REG_TEMP_BASE] = msb,
                            ![PB7200_REG_TEMP_BASE + 1] = lsb,
                            ![PB7200_REG_CURRENT_H] = msb,
                            ![PB7200_REG_CURRENT_H + 1] = lsb]
    /\ regs' # regs
    /\ call' = CallRec("deviceSample", msb, FALSE, FALSE, lsb, <<>>)
    /\ UNCHANGED <<iface, handleVars, now, voltagesOut>>

(***************************************************************************)
(* Spec: cell-voltage acquisition on packs of up to four cells.  The cell  *)
(* registers change between the nominal and the edge sample.               *)
(***************************************************************************)
Init ==
    /\ Constructed
    /\ regs = WithWords(Device(66, 0, 0, 0, 0), 1, 0, 15)

Next ==
    \/ \E n \in {0, 2, 4, 21} : Begin(n, Persistent(7))
    \/ \E i \in {1, 3} : GetCellVoltage(i)
    \/ \E c \in {0, 2, 4, 5} : GetAllCellVoltages(c)
    \/ \E k \in {1, 2} : DeviceSampleCells(k)

Spec == Init /\ [][Next]_vars

(***************************************************************************)
(* SpecUpdate: the batch refresh and the scalar reads on a two-cell pack,  *)
(* every transaction of update() failing independently.  The chip is       *)
(* blank or holds the edge sample.                                         *)
(***************************************************************************)
InitUpdate ==
    /\ Constructed
    /\ regs = WithFlags(WithWords(Device(66, 0, 0, 0, 0), 2, 0, 24), 2)

NextUpdate ==
    \/ Begin(2, Persistent(7))
    \/ Update(Outcomes(5))
    \/ GetCurrent
    \/ GetStatus
    \/ GetFaultStatus
    \/ \E k \in {0, 2} : DeviceSample(k)

SpecUpdate == InitUpdate /\ [][NextUpdate]_vars

(***************************************************************************)
(* SpecClock: the batch refresh against the clock.                         *)
(***************************************************************************)
InitClock ==
    /\ Constructed
    /\ regs = WithFlags(WithWords(Device(66, 0, 0, 0, 0), 1, 0, 24), 1)

NextClock ==
    \/ Begin(2, Persistent(7))
    \/ Update(Outcomes(5))
    \/ Tick

SpecClock == InitClock /\ [][NextClock]_vars

(***************************************************************************)
(* SpecIndex: the indexed accessors on a four-cell pack holding the        *)
(* nominal sample, called with indices inside and outside the pack.        *)
(***************************************************************************)
InitIndex ==
    /\ Constructed
    /\ regs = WithFlags(WithWords(Device(66, 15, 0, 0, 0), 1, 0, 24), 1)

NextIndex ==
    \/ Begin(4, Persistent(7))
    \/ \E i \in {3, 4, 20, 255} :
          \/ GetCellVoltage(i)
          \/ \E e \in BOOLEAN : SetBalancing(i, e)
          \/ IsBalancing(i)
          \/ GetCellData(i)
    \/ \E j \in {7, 8, 255} : GetTemperature(j)

SpecIndex == InitIndex /\ [][NextIndex]_vars

(***************************************************************************)
(* SpecBalance: the balance switches of a 20-cell pack whose three         *)
(* balance registers start out holding other cells' bits, cells 0, 8 and   *)
(* 19 (one per register) and the index 20 being switched.                  *)
(***************************************************************************)
InitBalance ==
    /\ Constructed
    /\ regs = Device(66, 164, 90, 244, 0)

NextBalance ==
    \/ Begin(20, Persistent(7))
    \/ \E i \in {0, 8, 19, 20} :
          \/ \E e \in BOOLEAN : SetBalancing(i, e)
          \/ IsBalancing(i)
    \/ StopAllBalancing

SpecBalance == InitBalance /\ [][NextBalance]_vars

(***************************************************************************)
(* SpecLife: construction, begin() with valid and invalid counts, reset()  *)
(* and the refresh, on a chip that is present, absent (id 0x00) or         *)
(* floating (id 0xFF).                                                     *)
(***************************************************************************)
InitLife ==
    /\ Constructed
    /\ regs \in {WithWords(Device(id, 0, 0, 0, 0), 1, 0, 15) : id \in {0, 66, 255}}

NextLife ==
    \/ \E n \in {0, 1, 20, 21, 255} : Begin(n, Persistent(7))
    \/ Reset(Persistent(8))
    \/ Update(Persistent(5))
    \/ StopAllBalancing

SpecLife == InitLife /\ [][NextLife]_vars

(***************************************************************************)
(* SpecCodec: decoding and encoding on a one-cell pack.  The chip presents *)
(* the byte pairs at the edges of the 16-bit range (0x0000, 0x7FFF,        *)
(* 0x8000, 0xFFFF), a nominal one (0x0E74) and 0xFF6A.                     *)
(***************************************************************************)
CodecWords == {<<0, 0>>, <<14, 116>>, <<127, 255>>, <<128, 0>>, <<255, 106>>,
               <<255, 255>>}

InitCodec ==
    /\ Constructed
    /\ iface = PB7200_INTERFACE_I2C
    /\ regs = Device(66, 0, 0, 0, 0)

NextCodec ==
    \/ Begin(1, Persistent(7))
    \/ GetCellVoltage(0)
    \/ GetTemperature(0)
    \/ GetCurrent
    \/ VoltageToRaw
    \/ CurrentToRaw
    \/ TempToRaw
    \/ \E w \in CodecWords : DeviceWord(w[1], w[2])

SpecCodec == InitCodec /\ [][NextCodec]_vars

(***************************************************************************)
(* SpecMode: the operating modes and reset() on a two-cell pack whose      *)
(* control register starts out 0x00, 0x12 (SHUTDOWN, auto-balance) or 0xFD *)
(* (SLEEP, every other bit set).                                           *)
(***************************************************************************)
InitMode ==
    /\ Constructed
    /\ regs \in {Device(66, 0, 0, 0, ctrl) : ctrl \in {0, 18, 253}}

NextMode ==
    \/ Begin(2, Persistent(7))
    \/ Reset(Persistent(8))
    \/ \E m \in {PB7200_MODE_NORMAL, PB7200_MODE_SLEEP, PB7200_MODE_SHUTDOWN} :
          SetMode(m)
    \/ Sleep
    \/ Wakeup
    \/ Shutdown

SpecMode == InitMode /\ [][NextMode]_vars

(***************************************************************************)
(* SpecMap: the addresses of the measurement reads on a 20-cell pack       *)
(* holding the nominal sample.                                             *)
(***************************************************************************)
InitMap ==
    /\ Constructed
    /\ regs = WithFlags(WithWords(Device(66, 0, 0, 0, 0), 1, 0, 24), 1)

NextMap ==
    \/ Begin(20, Persistent(7))
    \/ \E i \in {0, 9, 10, 16, 19} : GetCellVoltage(i)
    \/ \E c \in {10, 20} : GetAllCellVoltages(c)
    \/ \E j \in {0, 3, 7} : GetTemperature(j)

SpecMap == InitMap /\ [][NextMap]_vars

(***************************************************************************)
(* SpecSlots: a pack begun, reset and refreshed with two and with four     *)
(* cells, on a chip holding the nominal sample.                            *)
(***************************************************************************)
InitSlots ==
    /\ Constructed
    /\ regs = WithWords(Device(66, 0, 0, 0, 0), 1, 0, 15)

NextSlots ==
    \/ \E n \in {0, 2, 4} : Begin(n, Persistent(7))
    \/ Reset(Persistent(8))
    \/ Update(Persistent(5))
    \/ \E i \in {1, 3} : GetCellVoltage(i)
    \/ \E c \in {2, 4} : GetAllCellVoltages(c)

SpecSlots == InitSlots /\ [][NextSlots]_vars

(***************************************************************************)
(* SpecPower: the aggregates on packs of two and four cells.  The chip     *)
(* holds four cells of 3.700 V and a current of -1.50 A, or the edge       *)
(* sample.                                                                 *)
(***************************************************************************)
\* the nominal sample with the cells 0..3 at 0x0E74 = 3700 counts
PowerDevice ==
    [a \in RegAddrs |->
        IF a >= PB7200_REG_CELL_VOLTAGE_BASE
           /\ a < PB7200_REG_CELL_VOLTAGE_BASE + 8
        THEN IF (a - PB7200_REG_CELL_VOLTAGE_BASE) % 2 = 0 THEN 14 ELSE 116
        ELSE WithFlags(WithWords(Device(66, 0, 0, 0, 0), 1, 0, 24), 1)[a]]

InitPower ==
    /\ Constructed
    /\ regs = PowerDevice

NextPower ==
    \/ \E n \in {2, 4} : Begin(n, Persistent(7))
    \/ Update(Persistent(5))
    \/ GetTotalVoltage
    \/ GetMaxCellVoltage
    \/ GetMinCellVoltage
    \/ GetVoltageDelta
    \/ GetPower
    \/ DeviceSample(2)

SpecPower == InitPower /\ [][NextPower]_vars

(***************************************************************************)
(* SpecBegin: begin() with valid and invalid counts, every one of its      *)
(* seven transactions failing independently, on a chip that is present,    *)
(* absent (id 0x00) or floating (id 0xFF).                                 *)
(***************************************************************************)
InitBegin ==
    /\ Constructed
    /\ regs \in {WithFlags(WithWords(Device(id, 0, 0, 0, 0), 1, 0, 24), 1) :
                    id \in {0, 66, 255}}

NextBegin ==
    \E n \in {0, 1, 20, 21} : Begin(n, Outcomes(7))

SpecBegin == InitBegin /\ [][NextBegin]_vars

(***************************************************************************)
(* SpecConfig: the protection thresholds written and read back.  The       *)
(* configuration registers 0x60..0x65 start out holding 0x10 0x9A 0x0A     *)
(* 0xF0 0xFF 0x9C.                                                         *)
(***************************************************************************)
ConfigDevice ==
    [Device(66, 0, 0, 0, 0) EXCEPT ![PB7200_REG_CONFIG_OVP] = 16,
                                   ![PB7200_REG_CONFIG_UVP] = 154,
                                   ![PB7200_REG_CONFIG_OCP] = 10,
                                   ![PB7200_REG_CONFIG_OTP] = 240,
                                   ![PB7200_REG_CONFIG_UTP] = 255,
                                   ![PB7200_REG_CONFIG_UTP + 1] = 156]

\* 4.250 V, 2.800 V, 10.00 A, 60.0 degC, -10.0 degC; and thresholds that
\* are no multiples of their LSBs
Configs == {ProtectionConfig(4250, 2800, 10000, 60000, -10000),
            ProtectionConfig(4199, 3001, 1505, 45050, -50)}

\* the float behaviour of the five encoder calls: none, all or two of the
\* quotients fall short
Unders == {[k \in 1..5 |-> FALSE], [k \in 1..5 |-> TRUE],
           [k \in 1..5 |-> k \in {2, 3}]}

InitConfig ==
    /\ Constructed
    /\ regs = ConfigDevice

\* the ten writes of setProtectionConfig all succeed, all fail, or fail
\* from the fifth on
SetOutcomes == {[k \in 1..10 |-> k < f] : f \in {1, 5, 11}}

NextConfig ==
    \/ \E c \in Configs : \E u \in Unders :
          SetProtectionConfig(c, u, SetOutcomes)
    \/ \E c \in Configs : GetProtectionConfig(c)

SpecConfig == InitConfig /\ [][NextConfig]_vars

(***************************************************************************)
(* SpecAuto: the balance switches and automatic balancing on a pack of 10  *)
(* or of 20 cells (the pack size, once begun, stays), the three balance    *)
(* registers starting out 0x00 and the control register 0x00 or 0xEF       *)
(* (every bit but the auto-balance bit).                                   *)
(***************************************************************************)
AutoThresholds == {0, 50}

InitAuto ==
    /\ Constructed
    /\ \E ctrl \in {0, 239} : regs = Device(66, 0, 0, 0, ctrl)

NextAuto ==
    \/ \E n \in {10, 20} : cellCount \in {0, n} /\ Begin(n, Persistent(7))
    \/ \E i \in {0, 9, 10, 19, 20}, e \in BOOLEAN : SetBalancing(i, e)
    \/ StopAllBalancing
    \/ \E e \in BOOLEAN, t \in AutoThresholds : SetAutoBalancing(e, t)

SpecAuto == InitAuto /\ [][NextAuto]_vars

(***************************************************************************)
(* SpecThreshold: automatic balancing switched on and off with the         *)
(* thresholds 0, 50 (the default) and 65535 on a 20-cell pack, between     *)
(* balance switches of the cells 0 and 19.  The control register starts    *)
(* out 0x00 or 0xEF.                                                       *)
(***************************************************************************)
ThresholdRange == {0, 50, 65535}

InitThreshold ==
    /\ Constructed
    /\ \E ctrl \in {0, 239} : regs = Device(66, 0, 0, 0, ctrl)

NextThreshold ==
    \/ Begin(20, Persistent(7))
    \/ \E i \in {0, 19} : SetBalancing(i, TRUE)
    \/ \E e \in BOOLEAN, t \in ThresholdRange : SetAutoBalancing(e, t)

SpecThreshold == InitThreshold /\ [][NextThreshold]_vars

(***************************************************************************)
(* SpecStats: getPackStats() and the temperature aggregates on packs of    *)
(* two and four cells.  The refresh of getPackStats() goes through or has  *)
(* one of its two burst reads fail; begin() finds the bus up or down.  The *)
(* chip is blank or holds the nominal or the edge sample.                  *)
(***************************************************************************)
StatsOutcomes == {[k \in 1..5 |-> k # f] : f \in 0..2}

\* a bus that is up or down for a whole call of n transactions
Uniform(n) == {[k \in 1..n |-> x] : x \in BOOLEAN}

InitStats ==
    /\ Constructed
    /\ \E k \in {0, 1} : regs = WithFlags(WithWords(Device(66, 0, 0, 0, 0), k, 0, 24), k)

NextStats ==
    \/ \E n \in {2, 4} : Begin(n, Uniform(7))
    \/ GetPackStats(StatsOutcomes)
    \/ GetMaxTemperature
    \/ GetMinTemperature
    \/ \E k \in {0, 1, 2} : DeviceSample(k)

SpecStats == InitStats /\ [][NextStats]_vars

(***************************************************************************)
(* What the claims are stated in                                           *)
(***************************************************************************)
\* the voltage the chip's registers hold for cell i, in mV
RegVoltage(r, i) ==
    r[PB7200_REG_CELL_VOLTAGE_BASE + 2 * i] * 256
        + r[PB7200_REG_CELL_VOLTAGE_BASE + 2 * i + 1]

\* the first bus transaction of the last call was issued and succeeded
FirstReadOk(c) == c.bus # <<>> /\ c.bus[1].ok

SetMax(S) == CHOOSE x \in S : \A y \in S : y <= x
SetMin(S) == CHOOSE x \in S : \A y \in S : x <= y

ActiveCells == {i \in CellSlots : i < cellCount}

(***************************************************************************)
(* C1: getAllCellVoltages(out, count) is all-or-nothing.  If count >        *)
(* cellCount or the burst read fails it returns false and every element    *)
(* of out and every cache slot keeps its value; if it succeeds, exactly    *)
(* the slots 0..count-1 of out and of the cache take the decoded register  *)
(* values and the other slots keep theirs.                                 *)
(***************************************************************************)
C1_AllOrNothing ==
    [][call'.op = "getAllCellVoltages" =>
        IF call'.a > cellCount \/ ~FirstReadOk(call')
        THEN /\ ~call'.ok
             /\ voltagesOut' = voltagesOut
             /\ cellVoltages' = cellVoltages
        ELSE /\ call'.ok
             /\ \A i \in CellSlots :
                   IF i < call'.a
                   THEN /\ voltagesOut'[i] = RegVoltage(regs, i)
                        /\ cellVoltages'[i] = RegVoltage(regs, i)
                   ELSE /\ voltagesOut'[i] = voltagesOut[i]
                        /\ cellVoltages'[i] = cellVoltages[i]]_vars

\* a failed burst read on a handle whose cache holds an older sample than
\* the registers
C1_Witness ==
    /\ call.op = "getAllCellVoltages"
    /\ ~call.ok
    /\ call.bus # <<>>
    /\ cellVoltages[1] # 0
    /\ cellVoltages[1] # RegVoltage(regs, 1)
    /\ voltagesOut[1] # 9999

(***************************************************************************)
(* C10: getMaxCellVoltage() is the maximum of 0 and the cached voltages of *)
(* the cells 0..cellCount-1, getMinCellVoltage() the minimum of 5.000 V    *)
(* and those of them that are > 0; slots >= cellCount have no influence.   *)
(* A 4-cell pack caching 3.700, 3.715, 3.690, 3.705 V gives 3.715, 3.690   *)
(* and a delta of 0.025.                                                   *)
(***************************************************************************)
C10_MaxMin ==
    /\ getMaxCellVoltage(Cur)
         = SetMax({0} \cup {cellVoltages[i] : i \in ActiveCells})
    /\ getMinCellVoltage(Cur)
         = SetMin({5000} \cup {v \in {cellVoltages[i] : i \in ActiveCells} :
                                  v > 0})
    /\ (/\ cellCount = 4
        /\ cellVoltages[0] = 3700 /\ cellVoltages[1] = 3715
        /\ cellVoltages[2] = 3690 /\ cellVoltages[3] = 3705)
       => /\ getMaxCellVoltage(Cur) = 3715
          /\ getMinCellVoltage(Cur) = 3690
          /\ getVoltageDelta(Cur) = 25

\* a pack re-begun with fewer cells: a slot past cellCount holds more than
\* any active cell, and an active cell holds 0
C10_Witness ==
    /\ cellCount = 2
    /\ cellVoltages[0] = 0
    /\ cellVoltages[1] > 0
    /\ cellVoltages[2] > cellVoltages[1]
    /\ getMaxCellVoltage(Cur) = cellVoltages[1]
    /\ getMinCellVoltage(Cur) = cellVoltages[1]

(***************************************************************************)
(* C2: update() returns false exactly when the cell-voltage burst read or  *)
(* the temperature burst read failed, whatever the outcome of the current, *)
(* status and fault reads; and when the cell-voltage burst read fails, the *)
(* voltage cache is as before the call.                                    *)
(***************************************************************************)
\* the k-th bus transaction of call c was issued and succeeded
ReadOk(c, k) == Len(c.bus) >= k /\ c.bus[k].ok

C2_UpdateResult ==
    [][call'.op = "update" =>
        /\ call'.ok <=> (ReadOk(call', 1) /\ ReadOk(call', 2))
        /\ ~ReadOk(call', 1) => cellVoltages' = cellVoltages]_vars

\* the voltage burst alone failed, current, status and fault reads
\* succeeded, and the cache holds the older sample
C2_Witness ==
    /\ call.op = "update"
    /\ ~call.ok
    /\ Len(call.bus) = 5
    /\ ~call.bus[1].ok
    /\ \A k \in 2..5 : call.bus[k].ok
    /\ cellVoltages[1] # RegVoltage(regs, 1)
    /\ current = 1500

(***************************************************************************)
(* C6: when the bus read fails, getStatus() and getFaultStatus() return    *)
(* the byte cached by the last successful read of that register (0 if      *)
(* there was none) and leave the cached byte alone; when it succeeds they  *)
(* cache the byte read and return it.  The cached bytes start at 0 and     *)
(* change only by a successful read of their register.                     *)
(***************************************************************************)
\* call c holds a successful one-byte read of register reg
ReadOf(c, reg) ==
    \E k \in 1..Len(c.bus) :
        c.bus[k].kind = "r" /\ c.bus[k].reg = reg /\ c.bus[k].ok

C6_StaleStatus ==
    [][/\ call'.op = "getStatus" =>
            IF FirstReadOk(call')
            THEN status' = regs[PB7200_REG_STATUS] /\ call'.ret = status'
            ELSE status' = status /\ call'.ret = status
       /\ call'.op = "getFaultStatus" =>
            IF FirstReadOk(call')
            THEN /\ faultStatus' = regs[PB7200_REG_FAULT_STATUS]
                 /\ call'.ret = faultStatus'
            ELSE faultStatus' = faultStatus /\ call'.ret = faultStatus
       /\ status' # status =>
            ReadOf(call', PB7200_REG_STATUS)
                /\ status' = regs[PB7200_REG_STATUS]
       /\ faultStatus' # faultStatus =>
            ReadOf(call', PB7200_REG_FAULT_STATUS)
                /\ faultStatus' = regs[PB7200_REG_FAULT_STATUS]]_vars

\* a failed getStatus() that returned the byte of an older sample
C6_Witness ==
    /\ call.op = "getStatus"
    /\ call.bus # <<>>
    /\ ~call.bus[1].ok
    /\ call.ret # 0
    /\ call.ret # regs[PB7200_REG_STATUS]
    /\ status = call.ret

(***************************************************************************)
(* C7 as claimed: when the bus read of the current register fails,         *)
(* getCurrent() returns the cached current and leaves the cache alone.     *)
(***************************************************************************)
C7_Claimed ==
    [][(call'.op = "getCurrent" /\ ~FirstReadOk(call')) =>
        call'.ret = current /\ current' = current]_vars

(***************************************************************************)
(* C7 as amended: when the bus read of the current register fails,         *)
(* getCurrent() returns 0.0, whatever the cache holds, and leaves the      *)
(* cache alone; when it succeeds it caches and returns the decoded         *)
(* register.                                                               *)
(***************************************************************************)
RegCurrent(r) ==
    LET w == r[PB7200_REG_CURRENT_H] * 256 + r[PB7200_REG_CURRENT_H + 1]
    IN  (IF w >= 32768 THEN w - 65536 ELSE w) * 10

C7_ZeroOnFailure ==
    [][call'.op = "getCurrent" =>
        IF FirstReadOk(call')
        THEN current' = RegCurrent(regs) /\ call'.ret = current'
        ELSE current' = current /\ call'.ret = 0]_vars

\* a failed getCurrent() on a handle whose cache holds 1.50 A
C7_Witness ==
    /\ call.op = "getCurrent"
    /\ call.bus # <<>>
    /\ ~call.bus[1].ok
    /\ current = 1500
    /\ call.ret = 0

(***************************************************************************)
(* C9 as claimed: an update() that returns false leaves lastUpdate         *)
(* unchanged.                                                              *)
(***************************************************************************)
C9_Claimed ==
    [][(call'.op = "update" /\ ~call'.ok) => lastUpdate' = lastUpdate]_vars

(***************************************************************************)
(* C9 as amended: every update() call, whether it returns true or false,   *)
(* sets lastUpdate to the time of the call; lastUpdate changes in no other *)
(* way than by a refresh (update(), or the one inside begin()).            *)
(***************************************************************************)
C9_StampedAlways ==
    [][/\ call'.op = "update" => lastUpdate' = now
       /\ lastUpdate' # lastUpdate =>
            call'.op \in {"update", "begin", "reset"} /\ lastUpdate' = now]_vars

\* a handle on the unimplemented serial interface, where no refresh ever
\* succeeds, stamped by a failed update()
C9_Witness ==
    /\ call.op = "update"
    /\ ~call.ok
    /\ iface = PB7200_INTERFACE_UART
    /\ lastUpdate = now
    /\ now > 0

(***************************************************************************)
(* C3: out-of-range indices fail closed without touching the bus.  For a   *)
(* cell index i >= cellCount getCellVoltage(i) returns 0.0 and             *)
(* setBalancing(i, e), isBalancing(i) and getCellData(i, d) return false;  *)
(* for a sensor index j >= 8 getTemperature(j) returns 0.0; each such call *)
(* issues no bus transaction and changes neither the handle nor any        *)
(* register.                                                               *)
(***************************************************************************)
C3_FailClosed ==
    [][(\/ /\ call'.op \in {"getCellVoltage", "setBalancing", "isBalancing",
                            "getCellData"}
           /\ call'.a >= cellCount
        \/ /\ call'.op = "getTemperature"
           /\ call'.a >= 8)
       => /\ call'.bus = <<>>
          /\ ~call'.ok
          /\ call'.op \in {"getCellVoltage", "getTemperature"} => call'.ret = 0
          /\ UNCHANGED <<handleVars, regs>>]_vars

\* getCellVoltage(20) on a four-cell pack whose cache is populated
C3_Witness ==
    /\ call.op = "getCellVoltage"
    /\ call.a = 20
    /\ cellCount = 4
    /\ cellVoltages[3] = 3705
    /\ call.bus = <<>>
    /\ call.ret = 0

(***************************************************************************)
(* C4: a setBalancing(i, true) that returns true sets bit i%8 of register  *)
(* 0x50 + i/8 and leaves the other 7 bits of that register and every       *)
(* other register as they were (setBalancing(i, false) clears that bit     *)
(* alone); the isBalancing(i) that follows it, its read succeeding,        *)
(* returns the value that was set.                                         *)
(***************************************************************************)
BalanceReg(i) == PB7200_REG_BALANCE_CTRL1 + (i \div 8)
\* the balance bit of cell i in register file r
BalanceBit(r, i) == (r[BalanceReg(i)] \div (2 ^ (i % 8))) % 2

C4_BalancingBit ==
    [][/\ (call'.op = "setBalancing" /\ call'.ok) =>
            /\ call'.a < cellCount
            /\ BalanceBit(regs', call'.a) = (IF call'.b THEN 1 ELSE 0)
            /\ \A k \in (0..23) \ {call'.a} :
                  BalanceBit(regs', k) = BalanceBit(regs, k)
            /\ \A r \in RegAddrs \ {BalanceReg(call'.a)} : regs'[r] = regs[r]
       /\ (/\ call'.op = "isBalancing"
           /\ FirstReadOk(call')
           /\ call.op = "setBalancing"
           /\ call.ok
           /\ call.a = call'.a) => (call'.ok <=> call.b)]_vars

\* cell 19 enabled in a register that holds other bits
C4_Witness ==
    /\ call.op = "setBalancing"
    /\ call.ok
    /\ call.b
    /\ call.a = 19
    /\ regs[PB7200_REG_BALANCE_CTRL3] = 252

(***************************************************************************)
(* C5: a stopAllBalancing() that returns true leaves the three balance     *)
(* registers at 0x00; a balance bit that is 0 stays 0 until a              *)
(* setBalancing(k, true) for that very cell succeeds, and isBalancing(k)   *)
(* returns false while it is 0.                                            *)
(***************************************************************************)
C5_StopAll ==
    [][/\ (call'.op = "stopAllBalancing" /\ call'.ok) =>
            \A k \in CellSlots : BalanceBit(regs', k) = 0
       /\ (call'.op = "stopAllBalancing" /\ call'.ok) =>
            \A r \in PB7200_REG_BALANCE_CTRL1..PB7200_REG_BALANCE_CTRL3 :
                regs'[r] = 0
       /\ \A k \in CellSlots :
            (BalanceBit(regs, k) = 0 /\ BalanceBit(regs', k) = 1) =>
                /\ call'.op = "setBalancing"
                /\ call'.a = k
                /\ call'.b
                /\ call'.ok
       /\ (/\ call'.op = "isBalancing"
           /\ call'.a \in CellSlots
           /\ BalanceBit(regs, call'.a) = 0) => ~call'.ok]_vars

\* the three registers, which held bits before, all cleared by one call
C5_Witness ==
    /\ call.op = "stopAllBalancing"
    /\ call.ok
    /\ cellCount = 20
    /\ \A r \in PB7200_REG_BALANCE_CTRL1..PB7200_REG_BALANCE_CTRL3 : regs[r] = 0

(***************************************************************************)
(* C8 as claimed: 0 < cellCount <= 20 in every reachable state.            *)
(***************************************************************************)
C8_Claimed == 0 < cellCount /\ cellCount <= 20

(***************************************************************************)
(* C8 as amended: cellCount <= 20 in every reachable state; it is 0 from   *)
(* construction until the first begin(n) with 1 <= n <= 20, which stores n *)
(* (even when that begin() then fails), and 0 < cellCount <= 20 from then  *)
(* on; no begin() with an invalid count, no reset() and no other           *)
(* operation changes it.                                                   *)
(***************************************************************************)
C8_CellCountRange ==
    /\ [](cellCount \in 0..20)
    /\ [][/\ cellCount > 0 => cellCount' > 0
          /\ cellCount' # cellCount => call'.op = "begin"
          /\ call'.op = "begin" =>
                cellCount' = (IF call'.a \in 1..20 THEN call'.a
                              ELSE cellCount)]_vars

\* begin(21) refused on a handle begun with 20 cells
C8_Witness ==
    /\ call.op = "begin"
    /\ call.a = 21
    /\ ~call.ok
    /\ cellCount = 20


(***************************************************************************)
(* C11: with the registers unchanging and the bus succeeding, a            *)
(* getAllCellVoltages(out, count) with count <= cellCount leaves the       *)
(* voltage cache exactly as count sequential getCellVoltage(i) calls, i =  *)
(* 0..count-1, made from the same state would, and out[i] is the value     *)
(* getCellVoltage(i) returns.                                              *)
(***************************************************************************)
\* a bus on which every transaction succeeds
AllOk == [k \in 1..8 |-> TRUE]

\* the snapshot after the calls getCellVoltage(i), .., getCellVoltage(count-1)
\* made one after the other from snapshot s, each a call of its own
RECURSIVE SequentialReads(_, _, _)
SequentialReads(s, i, count) ==
    IF i < count
    THEN SequentialReads([getCellVoltage(s, i, AllOk).s EXCEPT !.bus = <<>>],
                         i + 1, count)
    ELSE s

C11_BurstIsSequential ==
    [][(call'.op = "getAllCellVoltages" /\ call'.ok) =>
        /\ call'.a <= cellCount
        /\ cellVoltages' = SequentialReads(Cur, 0, call'.a).cellVoltages
        /\ \A i \in CellSlots :
              i < call'.a =>
                 voltagesOut'[i]
                    = getCellVoltage(SequentialReads(Cur, 0, i), i, AllOk).ret]_vars

\* a successful burst over the four cells of a pack whose registers hold
\* four different voltages, now all in the cache
C11_Witness ==
    /\ call.op = "getAllCellVoltages"
    /\ call.ok
    /\ call.a = 4
    /\ cellCount = 4
    /\ \A i \in 0..3 : cellVoltages[i] = RegVoltage(regs, i)
    /\ \A i, j \in 0..3 : i # j => cellVoltages[i] # cellVoltages[j]
    /\ \A i \in 0..3 : voltagesOut[i] = cellVoltages[i]

(***************************************************************************)
(* C12: current and temperature are decoded as the big-endian two's        *)
(* complement 16-bit count msb*256 + lsb (less 65536 when msb >= 0x80)     *)
(* times 0.01 A and 0.1 degC, the cell voltage as the unsigned count       *)
(* msb*256 + lsb times 0.001 V; the bytes 0xFF, 0x6A of the current        *)
(* register decode to -150 counts, -1.50 A.                                *)
(***************************************************************************)
\* the count of the byte pair at register a, taken signed
SignedCount(r, a) ==
    IF r[a] >= 128 THEN r[a] * 256 + r[a + 1] - 65536 ELSE r[a] * 256 + r[a + 1]

C12_Decoding ==
    [][FirstReadOk(call') =>
        /\ call'.op = "getCurrent" =>
              /\ call'.ret = SignedCount(regs, PB7200_REG_CURRENT_H) * 10
              /\ current' = call'.ret
              /\ (regs[PB7200_REG_CURRENT_H] = 255
                    /\ regs[PB7200_REG_CURRENT_H + 1] = 106)
                 => call'.ret = -1500
        /\ (call'.op = "getTemperature" /\ call'.a = 0) =>
              /\ call'.ret = SignedCount(regs, PB7200_REG_TEMP_BASE) * 100
              /\ temperatures'[0] = call'.ret
        /\ (call'.op = "getCellVoltage" /\ call'.a = 0) =>
              /\ call'.ret = regs[PB7200_REG_CELL_VOLTAGE_BASE] * 256
                               + regs[PB7200_REG_CELL_VOLTAGE_BASE + 1]
              /\ cellVoltages'[0] = call'.ret]_vars

\* the current register holding 0xFF, 0x6A has been read as -1.50 A
C12_Witness ==
    /\ call.op = "getCurrent"
    /\ FirstReadOk(call)
    /\ regs[PB7200_REG_CURRENT_H] = 255
    /\ regs[PB7200_REG_CURRENT_H + 1] = 106
    /\ call.ret = -1500
    /\ current = -1500
    /\ cellVoltages[0] = 32768
    /\ temperatures[0] = -3276800

(***************************************************************************)
(* C13: for each of voltage, current and temperature, a decoded register   *)
(* pair that is encoded (the quotient value/LSB truncated toward zero,     *)
(* packed big-endian) and decoded again is within one LSB of the decoded   *)
(* value it started from.                                                  *)
(***************************************************************************)
Abs(x) == IF x >= 0 THEN x ELSE -x

C13_RoundTrip ==
    [][/\ call'.op = "voltageToRaw" =>
            Abs(rawToVoltage(Word16(HighByte(call'.ret), LowByte(call'.ret)))
                  - call'.a) <= PB7200_VOLTAGE_LSB
       /\ call'.op = "currentToRaw" =>
            Abs(rawToCurrent(Int16(HighByte(call'.ret), LowByte(call'.ret)))
                  - call'.a) <= PB7200_CURRENT_LSB
       /\ call'.op = "tempToRaw" =>
            Abs(rawToTemp(Int16(HighByte(call'.ret), LowByte(call'.ret)))
                  - call'.a) <= PB7200_TEMP_LSB]_vars

\* a negative decoded current whose quotient falls short of the whole
\* number has been encoded one count nearer to zero
C13_Witness ==
    /\ call.op = "currentToRaw"
    /\ call.a = -1500
    /\ current = -1500
    /\ call.ret = -149
    /\ cellVoltages[0] = 65535
    /\ temperatures[0] = -3276800

(***************************************************************************)
(* C14, as claimed: after any reset() that returns true, from any prior    *)
(* mode, the mode field (bits 0-1) of the control register encodes NORMAL  *)
(* (0).                                                                    *)
(***************************************************************************)
\* the mode field of control register value v
ModeField(v) == v % 4

C14_Claimed ==
    [][(call'.op = "reset" /\ call'.ok) =>
          ModeField(regs'[PB7200_REG_CONTROL]) = PB7200_MODE_NORMAL]_vars

(***************************************************************************)
(* C15, as claimed: for every cell index i in 0..19, every register        *)
(* address read by getCellVoltage(i) (two bytes from CELL_VOLTAGE_BASE +   *)
(* 2i) and by the getAllCellVoltages burst lies inside the cell-voltage    *)
(* region 0x10-0x23 and is no address of the temperature region, which     *)
(* starts at 0x30 and is read by getTemperature / getAllTemperatures.      *)
(***************************************************************************)
\* the last address of the cell-voltage region of the register map
CellRegionLast == 35

\* the addresses bus transaction t reads
TxAddrs(t) == t.reg .. (t.reg + t.len - 1)

\* the addresses getAllTemperatures reads for the 8 sensors
TempRegion ==
    PB7200_REG_TEMP_BASE .. (PB7200_REG_TEMP_BASE + 2 * PB7200_MAX_TEMPS - 1)

C15_Claimed ==
    [][call'.op \in {"getCellVoltage", "getAllCellVoltages"} =>
        \A k \in 1..Len(call'.bus) :
            \A a \in TxAddrs(call'.bus[k]) :
                /\ a >= PB7200_REG_CELL_VOLTAGE_BASE
                /\ a <= CellRegionLast
                /\ a \notin TempRegion]_vars


(***************************************************************************)
(* C16, as claimed: in every reachable state, after any sequence of begin, *)
(* reset, update, getCellVoltage and getAllCellVoltages calls, every slot  *)
(* of the voltage cache with index >= cellCount holds 0.0.                 *)
(***************************************************************************)
C16_Claimed ==
    \A i \in CellSlots : i >= cellCount => cellVoltages[i] = 0

(***************************************************************************)
(* C16, amended: no call writes a cache slot whose index is >= the         *)
(* cellCount in force when the call returns; the slots are never cleared   *)
(* either, so a slot that an earlier, larger pack has filled keeps its     *)
(* last value.                                                             *)
(***************************************************************************)
C16_InactiveSlotsKept ==
    [][\A i \in CellSlots :
          i >= cellCount' => cellVoltages'[i] = cellVoltages[i]]_vars

\* a two-cell pack, refreshed, whose slots 2 and 3 still hold what the
\* four-cell pack before it read
C16_Witness ==
    /\ call.op = "update"
    /\ call.ok
    /\ cellCount = 2
    /\ cellVoltages[2] = 3690
    /\ cellVoltages[3] = 3705

(***************************************************************************)
(* C17: getTotalVoltage, getMaxCellVoltage, getMinCellVoltage,             *)
(* getVoltageDelta and getPower issue no bus transaction and leave every   *)
(* field of the handle unchanged; getPower returns the sum of the cached   *)
(* voltages of the cells 0..cellCount-1 times the cached current: 14.800 V *)
(* and -1.50 A give -22.2 W.                                               *)
(***************************************************************************)
Aggregates == {"getTotalVoltage", "getMaxCellVoltage", "getMinCellVoltage",
               "getVoltageDelta", "getPower"}

\* the sum of the cached voltages of the cells 0..n-1
RECURSIVE CachedSum(_)
CachedSum(n) == IF n = 0 THEN 0 ELSE CachedSum(n - 1) + cellVoltages[n - 1]

C17_Aggregates ==
    [][call'.op \in Aggregates =>
        /\ call'.bus = <<>>
        /\ UNCHANGED <<handleVars, regs>>
        /\ call'.op = "getTotalVoltage" => call'.ret = CachedSum(cellCount)
        /\ call'.op = "getPower" =>
              /\ call'.ret = CachedSum(cellCount) * current
              /\ (CachedSum(cellCount) = 14800 /\ current = -1500)
                 => call'.ret = -22200000]_vars

\* getPower on a four-cell pack caching 14.800 V and -1.50 A, with more in
\* the cache than the highest cell alone
C17_Witness ==
    /\ call.op = "getPower"
    /\ cellCount = 4
    /\ CachedSum(4) = 14800
    /\ current = -1500
    /\ call.ret = -22200000

(***************************************************************************)
(* C18, as claimed: every update() call issues exactly five bus reads,     *)
(* each once and in this order: the cell-voltage burst at 0x10, the        *)
(* temperature burst at 0x30, the current at 0x40, the status at 0x01 and  *)
(* the fault status at 0x02; a failure of any of them neither skips the    *)
(* later reads nor has any read retried.                                   *)
(***************************************************************************)
\* the registers the bus log b reads, in order, every entry being a read
ReadsOf(b) == [k \in 1..Len(b) |-> IF b[k].kind = "r" THEN b[k].reg ELSE -1]

UpdateReads ==
    <<PB7200_REG_CELL_VOLTAGE_BASE, PB7200_REG_TEMP_BASE,
      PB7200_REG_CURRENT_H, PB7200_REG_STATUS, PB7200_REG_FAULT_STATUS>>

C18_Claimed ==
    [][call'.op = "update" => ReadsOf(call'.bus) = UpdateReads]_vars

(***************************************************************************)
(* C18, amended: on the I2C interface every update() call issues exactly   *)
(* these five reads in this order, whatever the outcome of each; on the    *)
(* serial interface, whose transport is not implemented, update() issues   *)
(* no bus operation and returns false.                                     *)
(***************************************************************************)
C18_FiveReads ==
    [][call'.op = "update" =>
        IF iface = PB7200_INTERFACE_I2C
        THEN /\ ReadsOf(call'.bus) = UpdateReads
             /\ call'.bus[1].len = 2 * cellCount
             /\ call'.bus[2].len = 2 * PB7200_MAX_TEMPS
             /\ call'.bus[3].len = 2
        ELSE call'.bus = <<>> /\ ~call'.ok]_vars

\* an update() whose first two reads failed and whose last three were
\* still issued, the last one succeeding
C18_Witness ==
    /\ call.op = "update"
    /\ Len(call.bus) = 5
    /\ ~call.bus[1].ok
    /\ ~call.bus[2].ok
    /\ ~call.bus[3].ok
    /\ ~call.bus[4].ok
    /\ call.bus[5].ok
    /\ cellCount = 2

(***************************************************************************)
(* C19: stopAllBalancing() always attempts the three writes of 0x00 to the *)
(* registers 0x50, 0x51, 0x52, in that order and whatever the earlier      *)
(* ones did; it returns true iff all three writes succeeded; nothing is    *)
(* rolled back: a register whose write succeeded holds 0x00, a register    *)
(* whose write failed keeps its value.  (On the serial interface each      *)
(* attempt fails inside writeRegister, before any bus operation.)          *)
(***************************************************************************)
BalanceRegs ==
    <<PB7200_REG_BALANCE_CTRL1, PB7200_REG_BALANCE_CTRL2,
      PB7200_REG_BALANCE_CTRL3>>

\* the k-th write of call c reached the bus and was acknowledged
WriteOk(c, k) == Len(c.bus) >= k /\ c.bus[k].ok

C19_NoRollback ==
    [][call'.op = "stopAllBalancing" =>
        /\ IF iface = PB7200_INTERFACE_I2C
           THEN /\ Len(call'.bus) = 3
                /\ \A k \in 1..3 :
                      /\ call'.bus[k].kind = "w"
                      /\ call'.bus[k].reg = BalanceRegs[k]
                      /\ call'.bus[k].val = 0
           ELSE call'.bus = <<>>
        /\ call'.ok <=> \A k \in 1..3 : WriteOk(call', k)
        /\ \A k \in 1..3 :
              regs'[BalanceRegs[k]]
                 = IF WriteOk(call', k) THEN 0 ELSE regs[BalanceRegs[k]]
        /\ \A a \in RegAddrs :
              (\A k \in 1..3 : a # BalanceRegs[k]) => regs'[a] = regs[a]]_vars

\* the first and the third write failed, the second went through: the
\* second register alone is cleared
C19_Witness ==
    /\ call.op = "stopAllBalancing"
    /\ ~call.ok
    /\ Len(call.bus) = 3
    /\ ~call.bus[1].ok
    /\ call.bus[2].ok
    /\ ~call.bus[3].ok
    /\ regs[PB7200_REG_BALANCE_CTRL1] # 0
    /\ regs[PB7200_REG_BALANCE_CTRL2] = 0
    /\ regs[PB7200_REG_BALANCE_CTRL3] # 0

(***************************************************************************)
(* C20: a setMode(m) that returns true leaves the bits 2-7 of the control  *)
(* register 0x70 unchanged and sets the bits 0-1 to m, sleep() being       *)
(* setMode(SLEEP) and wakeup() setMode(NORMAL); if the read of the control *)
(* register fails, setMode returns false and issues no write; no setMode,  *)
(* sleep or wakeup call writes the shutdown register 0x72, and shutdown()  *)
(* writes only 0x72.                                                       *)
(***************************************************************************)
ModeCalls == {"setMode", "sleep", "wakeup"}

\* the registers the bus log b writes
WrittenRegs(b) == {b[k].reg : k \in {j \in 1..Len(b) : b[j].kind = "w"}}

C20_ModeField ==
    [][/\ (call'.op \in ModeCalls /\ call'.ok) =>
            /\ regs'[PB7200_REG_CONTROL] \div 4 = regs[PB7200_REG_CONTROL] \div 4
            /\ ModeField(regs'[PB7200_REG_CONTROL]) = call'.a
       /\ call'.op = "sleep" => call'.a = PB7200_MODE_SLEEP
       /\ call'.op = "wakeup" => call'.a = PB7200_MODE_NORMAL
       /\ (call'.op \in ModeCalls /\ ~FirstReadOk(call')) =>
            /\ ~call'.ok
            /\ WrittenRegs(call'.bus) = {}
            /\ regs' = regs
       /\ call'.op \in ModeCalls =>
            /\ WrittenRegs(call'.bus) \subseteq {PB7200_REG_CONTROL}
            /\ regs'[PB7200_REG_SHUTDOWN] = regs[PB7200_REG_SHUTDOWN]
       /\ call'.op = "shutdown" =>
            /\ WrittenRegs(call'.bus) \subseteq {PB7200_REG_SHUTDOWN}
            /\ \A a \in RegAddrs :
                  a # PB7200_REG_SHUTDOWN => regs'[a] = regs[a]
            /\ call'.ok => regs'[PB7200_REG_SHUTDOWN] = 1]_vars

\* a successful setMode(SHUTDOWN) on a control register with every other
\* bit set, the shutdown register untouched
C20_Witness ==
    /\ call.op = "setMode"
    /\ call.ok
    /\ call.a = PB7200_MODE_SHUTDOWN
    /\ regs[PB7200_REG_CONTROL] = 254
    /\ regs[PB7200_REG_SHUTDOWN] = 0

(***************************************************************************)
(* C21: begin(n) with 1 <= n <= 20 on the I2C interface issues, in this    *)
(* order, the device-id probe read, one write of 0x01 to the control       *)
(* register and one update(); with n = 0 or n > 20 it issues no bus        *)
(* operation; if the probe fails or reads 0x00 or 0xFF no write is issued  *)
(* and begin returns false; if the control write fails no refresh is       *)
(* issued and begin returns false; otherwise begin returns true whatever   *)
(* the refresh does.                                                       *)
(***************************************************************************)
\* the probe of the last call read a usable device id from register file r
ProbeOk(c, r) ==
    /\ c.bus[1].ok
    /\ r[PB7200_REG_DEVICE_ID] # 0
    /\ r[PB7200_REG_DEVICE_ID] # 255

C21_BeginSequence ==
    [][call'.op = "begin" =>
        /\ (call'.a = 0 \/ call'.a > 20) => (call'.bus = <<>> /\ ~call'.ok)
        /\ (iface = PB7200_INTERFACE_I2C /\ call'.a \in 1..20) =>
              /\ Len(call'.bus) >= 1
              /\ call'.bus[1].kind = "r"
              /\ call'.bus[1].reg = PB7200_REG_DEVICE_ID
              /\ ~ProbeOk(call', regs) => (Len(call'.bus) = 1 /\ ~call'.ok)
              /\ ProbeOk(call', regs) =>
                    /\ Len(call'.bus) >= 2
                    /\ call'.bus[2].kind = "w"
                    /\ call'.bus[2].reg = PB7200_REG_CONTROL
                    /\ call'.bus[2].val = 1
                    /\ ~call'.bus[2].ok => (Len(call'.bus) = 2 /\ ~call'.ok)
                    /\ call'.bus[2].ok =>
                          /\ call'.ok
                          /\ Len(call'.bus) = 7
                          /\ ReadsOf(SubSeq(call'.bus, 3, 7)) = UpdateReads]_vars

\* a begin that returned true although both burst reads of its refresh
\* failed
C21_Witness ==
    /\ call.op = "begin"
    /\ call.ok
    /\ call.a = 20
    /\ Len(call.bus) = 7
    /\ ~call.bus[3].ok
    /\ ~call.bus[4].ok
    /\ call.bus[7].ok

(***************************************************************************)
(* C22: getProtectionConfig(config) attempts all five 2-byte reads (OVP,   *)
(* UVP, OCP, OTP, UTP) whatever the earlier ones did, returns true iff all *)
(* five succeeded, overwrites exactly the fields whose read succeeded and  *)
(* leaves the fields whose read failed as they were before the call.  (On  *)
(* the serial interface each attempt fails inside readRegisters, before    *)
(* any bus operation.)                                                     *)
(***************************************************************************)
ConfigRegs ==
    <<PB7200_REG_CONFIG_OVP, PB7200_REG_CONFIG_UVP, PB7200_REG_CONFIG_OCP,
      PB7200_REG_CONFIG_OTP, PB7200_REG_CONFIG_UTP>>

\* the k-th threshold of configuration c
Threshold(c, k) ==
    CASE k = 1 -> c.overVoltageThreshold
      [] k = 2 -> c.underVoltageThreshold
      [] k = 3 -> c.overCurrentThreshold
      [] k = 4 -> c.overTempThreshold
      [] k = 5 -> c.underTempThreshold

\* what the two bytes at the k-th threshold's address decode to
StoredThreshold(r, k) ==
    CASE k \in {1, 2} -> r[ConfigRegs[k]] * 256 + r[ConfigRegs[k] + 1]
      [] k = 3 -> SignedCount(r, ConfigRegs[k]) * 10
      [] k \in {4, 5} -> SignedCount(r, ConfigRegs[k]) * 100

C22_IndependentReads ==
    [][call'.op = "getProtectionConfig" =>
        /\ IF iface = PB7200_INTERFACE_I2C
           THEN /\ Len(call'.bus) = 5
                /\ \A k \in 1..5 :
                      /\ call'.bus[k].kind = "r"
                      /\ call'.bus[k].reg = ConfigRegs[k]
                      /\ call'.bus[k].len = 2
           ELSE call'.bus = <<>>
        /\ call'.ok <=> \A k \in 1..5 : ReadOk(call', k)
        /\ \A k \in 1..5 :
              Threshold(call'.ret, k)
                 = IF ReadOk(call', k) THEN StoredThreshold(regs, k)
                   ELSE Threshold(call'.a, k)
        /\ regs' = regs]_vars

\* the reads of OVP and OTP failed, the three others went through
C22_Witness ==
    /\ call.op = "getProtectionConfig"
    /\ ~call.ok
    /\ Len(call.bus) = 5
    /\ ~call.bus[1].ok /\ call.bus[2].ok /\ call.bus[3].ok
    /\ ~call.bus[4].ok /\ call.bus[5].ok
    /\ call.ret.overVoltageThreshold = call.a.overVoltageThreshold
    /\ call.ret.underVoltageThreshold # call.a.underVoltageThreshold
    /\ call.ret.overTempThreshold = call.a.overTempThreshold
    /\ call.ret.underTempThreshold = StoredThreshold(regs, 5)

(***************************************************************************)
(* C28, as claimed: with a bus that succeeds, a setProtectionConfig(c)     *)
(* that returns true followed by a getProtectionConfig(d) that returns     *)
(* true yields, for each of the five thresholds, d's value equal to c's    *)
(* value truncated to its LSB: writing one threshold never overwrites the  *)
(* stored bytes of another.                                                *)
(***************************************************************************)
ThresholdLsb(k) ==
    CASE k \in {1, 2} -> PB7200_VOLTAGE_LSB
      [] k = 3 -> PB7200_CURRENT_LSB
      [] k \in {4, 5} -> PB7200_TEMP_LSB

\* x truncated toward zero to a multiple of lsb
Truncated(x, lsb) ==
    IF x >= 0 THEN (x \div lsb) * lsb ELSE -(((-x) \div lsb) * lsb)

C28_Claimed ==
    [][(/\ call.op = "setProtectionConfig" /\ call.ok
        /\ call'.op = "getProtectionConfig" /\ call'.ok) =>
          \A k \in 1..5 :
              Threshold(call'.ret, k)
                 = Truncated(Threshold(call.a, k), ThresholdLsb(k))]_vars

C29_Claimed ==
    [][(/\ call.op = "setAutoBalancing" /\ call.b /\ call.ok
        /\ call'.op = "setAutoBalancing" /\ ~call'.b /\ call'.ok
        /\ call'.a = call.a)
          => Bit(regs'[PB7200_REG_CONTROL], 4) = 0]_vars

(***************************************************************************)
(* C30: from balance registers that are all zero and with the pack size    *)
(* fixed, whatever setBalancing, stopAllBalancing and setAutoBalancing     *)
(* calls are made and whichever of their transactions fail, no balance bit *)
(* of a cell index >= cellCount is set (the bits 4-7 of the third balance  *)
(* register 0x52 among them), and every write to a balance register either *)
(* follows a successful read of that register in the same call or writes   *)
(* 0x00.                                                                   *)
(***************************************************************************)
BalanceBits == 0..23

C30_SwitchesInPack ==
    /\ \A i \in BalanceBits : i >= cellCount => BalanceBit(regs, i) = 0
    /\ \A b \in 4..7 : Bit(regs[PB7200_REG_BALANCE_CTRL3], b) = 0
    /\ \A k \in 1..Len(call.bus) :
          (/\ call.bus[k].kind = "w"
           /\ \E m \in 1..3 : call.bus[k].reg = BalanceRegs[m])
             => \/ call.bus[k].val = 0
                \/ \E j \in 1..(k - 1) :
                      /\ call.bus[j].kind = "r"
                      /\ call.bus[j].reg = call.bus[k].reg
                      /\ call.bus[j].ok

\* the last cell of a 10-cell pack switched on after cell 0: bits 0 and 1
\* of the registers 0x50 and 0x51, nothing above
C30_Witness ==
    /\ cellCount = 10
    /\ call.op = "setBalancing"
    /\ call.a = 9
    /\ call.b
    /\ call.ok
    /\ regs[PB7200_REG_BALANCE_CTRL1] = 1
    /\ regs[PB7200_REG_BALANCE_CTRL2] = 2
    /\ regs[PB7200_REG_BALANCE_CTRL3] = 0

(***************************************************************************)
(* C24: getPackStats(stats) performs an update() first.  If that update()  *)
(* returns false, getPackStats returns false and every field of stats is   *)
(* as before the call; if it returns true, totalVoltage, maxCellVoltage,   *)
(* minCellVoltage, voltageDelta, power, maxTemp and minTemp of stats equal *)
(* what getTotalVoltage, getMaxCellVoltage, getMinCellVoltage,             *)
(* getVoltageDelta, getPower, getMaxTemperature and getMinTemperature      *)
(* return on the cache the update left.                                    *)
(***************************************************************************)
C24_PackStats ==
    [][call'.op = "getPackStats" =>
        /\ \E oks \in Outcomes(5) :
              LET u == update(Cur, oks)
              IN  /\ call'.bus = u.s.bus
                  /\ call'.ok = u.ok
                  /\ Cur' = [u.s EXCEPT !.bus = <<>>]
        /\ ~call'.ok => call'.ret = PackStatsInit
        /\ call'.ok =>
              /\ call'.ret.totalVoltage = getTotalVoltage(Cur')
              /\ call'.ret.maxCellVoltage = getMaxCellVoltage(Cur')
              /\ call'.ret.minCellVoltage = getMinCellVoltage(Cur')
              /\ call'.ret.voltageDelta = getVoltageDelta(Cur')
              /\ call'.ret.power = getPower(Cur')
              /\ call'.ret.maxTemp = getMaxTemperature(Cur')
              /\ call'.ret.minTemp = getMinTemperature(Cur')]_vars

\* the statistics of the nominal 4-cell pack: 14.810 V in all, 3.715 V and
\* 3.690 V at the extremes, 0.025 V between them, 200.1 and 0.0 degC
C24_Witness ==
    /\ call.op = "getPackStats"
    /\ call.ok
    /\ cellCount = 4
    /\ call.ret.totalVoltage = 14810
    /\ call.ret.maxCellVoltage = 3715
    /\ call.ret.minCellVoltage = 3690
    /\ call.ret.voltageDelta = 25
    /\ call.ret.maxTemp = 200100
    /\ call.ret.minTemp = 0

(***************************************************************************)
(* C25: whenever getPackStats(stats) returns true, the indices it reports  *)
(* identify the extrema it reports: maxCellIndex and minCellIndex are      *)
(* below cellCount, the cached voltages at them are maxCellVoltage and     *)
(* minCellVoltage, and the cached temperatures at maxTempIndex and         *)
(* minTempIndex are maxTemp and minTemp.                                   *)
(***************************************************************************)
C25_Claimed ==
    (call.op = "getPackStats" /\ call.ok) =>
        /\ call.ret.maxCellIndex < cellCount
        /\ call.ret.minCellIndex < cellCount
        /\ cellVoltages[call.ret.maxCellIndex] = call.ret.maxCellVoltage
        /\ cellVoltages[call.ret.minCellIndex] = call.ret.minCellVoltage
        /\ temperatures[call.ret.maxTempIndex] = call.ret.maxTemp
        /\ temperatures[call.ret.minTempIndex] = call.ret.minTemp

(***************************************************************************)
(* C26: getVoltageDelta() is never negative: in every reachable state,     *)
(* before the first successful refresh included, getMaxCellVoltage() >=    *)
(* getMinCellVoltage().                                                    *)
(***************************************************************************)
C26_Claimed == getMaxCellVoltage(Cur) >= getMinCellVoltage(Cur)

\* C26 as the code has it: getVoltageDelta() is max - min; it is >= 0
\* exactly when some active cell has a cached voltage > 0, and -5.000 V
\* otherwise
C26_DeltaSign ==
    /\ getVoltageDelta(Cur) = getMaxCellVoltage(Cur) - getMinCellVoltage(Cur)
    /\ IF \E i \in ActiveCells : cellVoltages[i] > 0
       THEN getVoltageDelta(Cur) >= 0
       ELSE getVoltageDelta(Cur) = -5000
    /\ call.op = "getVoltageDelta" => call.ret = getVoltageDelta(Cur)

\* the delta asked of a 2-cell pack whose begin() failed: -5.000 V
C26_Witness ==
    /\ call.op = "getVoltageDelta"
    /\ cellCount = 2
    /\ call.ret = -5000

(***************************************************************************)
(* C27: a begin(n) that returns false (invalid count, serial interface,    *)
(* failed or invalid device-ID probe, failed control write) leaves the     *)
(* handle as before the call: cellCount and every cached value unchanged.  *)
(***************************************************************************)
C27_Claimed ==
    [][(call'.op = "begin" /\ ~call'.ok) => UNCHANGED handleVars]_vars

====
